---- MODULE Spec2Model ----
(***************************************************************************)
(* A model of mac_maintenance.py: the command runner, the result           *)
(* classifier, path validation, the maintenance tasks and the dispatcher.  *)
(*                                                                         *)
(* A text is the sequence of its characters.  None is the empty tuple and  *)
(* a present optional value x is <<x>>.                                    *)
(***************************************************************************)
EXTENDS Integers, Sequences, FiniteSets, TLC

VARIABLES
    pathIn,     \* validate_home_path: the path argument and the working directory
    pathOut,    \* validate_home_path: what the call did (nothing yet, returned, raised)
    result,     \* badge_for_result: the CommandResult argument
    badge,      \* badge_for_result: the classification computed for result
    call,       \* run_command: the arguments and what the spawned command does
    ret,        \* run_command: what the call did (nothing yet, returned, raised)
    spawned,    \* run_command: the subprocesses it has started
    world,      \* what the filesystem held when the process started
    fs,         \* the filesystem
    tcall,      \* the task call: its name, the arguments and the environment
    tout,       \* what the task call did: status, exception, log, commands
    margs,      \* main: the namespace parse_args returned
    menv,       \* main: what the environment does to the calls of the tasks
    tasks,      \* main: its local variable tasks
    pc,         \* main: the statement it is at
    executed,   \* main: the tasks called so far, and how each call ended
    exit_code,  \* main: the exit status of the process, None while it runs
    mlog,       \* main: the lines main itself logged
    ropts,      \* generate_report: its include_ arguments and whether brew is found
    rpos,       \* generate_report: the place in its list of checks it is at
    results,    \* generate_report: the results collected so far, with their titles
    rstate,     \* generate_report: idle, start, checking, raised, listed, written
    rret,       \* generate_report: what the call did (nothing yet, returned, raised)
    section,    \* render_results_section: the section argument
    html,       \* render_results_section: the lines returned, None before the call
    toc,        \* generate_report: the table-of-contents item of section, None before
    environ,    \* run_command: the PATH of os.environ, None when it is unset
    passed      \* run_command: the PATH of the env given to the subprocess

pathVars == <<pathIn, pathOut>>

badgeVars == <<result, badge>>

runVars == <<call, ret, spawned>>

taskVars == <<world, fs, tcall, tout>>

mainVars == <<margs, menv, tasks, pc, executed, exit_code, mlog>>

reportVars == <<ropts, rpos, results, rstate, rret>>

renderVars == <<section, html, toc>>

envVars == <<environ, passed>>

vars == <<pathVars, badgeVars, runVars, taskVars, mainVars, reportVars, renderVars, envVars>>

(***************************************************************************)
(* Bounds of the model.                                                    *)
(***************************************************************************)
MaxDepth == 3        \* components in a path argument
MaxErrPhrases == 2   \* phrases in a stderr text given to the classifier
MaxOutLen == 3       \* characters a command writes to stdout
MaxLimit == 2        \* largest --max-chars and --max-lines value
MaxFolders == 2      \* folders given to archive-orphans
MaxFlags == 2        \* brew action flags given together (all of them apart)
MaxTasks == 2        \* --task options on a command line (all of them apart)
MaxFailures == 1     \* checks of one report whose command does not succeed
MaxChecks == 2       \* checks of a rendered section
MaxPathEntries == 3  \* entries of the PATH the process starts with

(***************************************************************************)
(* Optional values and text helpers.                                       *)
(***************************************************************************)
None == <<>>

Some(x) == <<x>>

\* Python truthiness of an Optional[str]: None and "" are both false.
Truthy(opt) == opt # None /\ opt[1] # <<>>

\* str.startswith
StartsWith(s, p) == Len(p) <= Len(s) /\ SubSeq(s, 1, Len(p)) = p

\* the `in` operator on strings
Contains(s, p) == \E i \in 0..(Len(s) - Len(p)) : SubSeq(s, i + 1, i + Len(p)) = p

RECURSIVE Flatten(_)
Flatten(ss) == IF ss = <<>> THEN <<>> ELSE Head(ss) \o Flatten(Tail(ss))

SeqsUpTo(S, n) == UNION {[1..k -> S] : k \in 0..n}

(***************************************************************************)
(* Paths.  A path is a sequence of components and a component is a         *)
(* sequence of characters.  Symbolic links are not modelled: resolve()     *)
(* makes the path absolute and removes the ".." components.                *)
(***************************************************************************)
U == <<"u">>
JO == <<"j", "o">>
JOE == <<"j", "o", "e">>
ETC == <<"e", "t", "c">>
DOCS == <<"d">>
DOTDOT == <<".", ".">>

\* Path.home()
Home == <<U, JO>>

\* str(path) of an absolute path
RECURSIVE PathStr(_)
PathStr(parts) ==
    IF parts = <<>> THEN <<"/">>
    ELSE IF Len(parts) = 1 THEN <<"/">> \o parts[1]
    ELSE PathStr(SubSeq(parts, 1, Len(parts) - 1)) \o <<"/">> \o parts[Len(parts)]

\* Path.expanduser(): a leading "~" becomes the home directory
ExpandUser(p) ==
    IF p.anchor = "tilde" THEN [anchor |-> "root", parts |-> Home \o p.parts] ELSE p

RECURSIVE Normalize(_, _)
Normalize(done, rest) ==
    IF rest = <<>> THEN done
    ELSE IF Head(rest) = DOTDOT
         THEN Normalize(IF done = <<>> THEN <<>> ELSE SubSeq(done, 1, Len(done) - 1),
                        Tail(rest))
         ELSE Normalize(Append(done, Head(rest)), Tail(rest))

\* Path.resolve(): absolute (relative paths start at cwd), ".." removed
Resolve(p, cwd) ==
    Normalize(<<>>, IF p.anchor = "root" THEN p.parts
                    ELSE IF p.anchor = "tilde" THEN cwd \o <<<<"~">>>> \o p.parts
                    ELSE cwd \o p.parts)

\* the path is dir or lies below it
IsUnder(dir, parts) == StartsWith(parts, dir)

Raised(exc) == [status |-> "raised", exc |-> exc, value |-> <<>>]

Returned(v) == [status |-> "returned", exc |-> "", value |-> v]

\* the check as a prefix test on components (a plausible repair, used as a mutant)
HomeCheckByParts(resolved, home) == IsUnder(home, resolved)

\* str(resolved).startswith(str(home))
HomeCheck(resolved, home) == StartsWith(PathStr(resolved), PathStr(home))

validate_home_path(path, cwd) ==
    LET resolved == Resolve(ExpandUser(path), cwd)
        home == Resolve([anchor |-> "root", parts |-> Home], cwd)
    IN  IF ~HomeCheck(resolved, home) THEN Raised("ValueError") ELSE Returned(resolved)

PathComponents == {U, JO, JOE, ETC, DOCS, DOTDOT}

PathInputs ==
    [path : [anchor : {"root", "tilde", "cwd"}, parts : SeqsUpTo(PathComponents, MaxDepth)],
     cwd : {Home, <<ETC>>}]

NotCalled == [status |-> "none", exc |-> "", value |-> <<>>]

IdleResult == [returncode |-> None, stderr |-> <<>>, skipped_reason |-> None]

IdleBadge == [status |-> "none", label |-> "", code |-> None]

IdlePath ==
    /\ pathIn = [path |-> [anchor |-> "root", parts |-> <<>>], cwd |-> Home]
    /\ pathOut = NotCalled

IdleBadgeVars ==
    /\ result = IdleResult
    /\ badge = IdleBadge

IdleRun ==
    /\ call = [skip_reason |-> None]
    /\ ret = NotCalled
    /\ spawned = 0

IdleTask ==
    /\ world = <<>>
    /\ fs = <<>>
    /\ tcall = [task |-> "none"]
    /\ tout = [status |-> "none"]

IdleMain ==
    /\ margs = <<>>
    /\ menv = <<>>
    /\ tasks = <<>>
    /\ pc = "idle"
    /\ executed = <<>>
    /\ exit_code = None
    /\ mlog = <<>>

IdleReport ==
    /\ ropts = <<>>
    /\ rpos = 0
    /\ results = <<>>
    /\ rstate = "idle"
    /\ rret = NotCalled

IdleEnv ==
    /\ environ = None
    /\ passed = None

IdleRender ==
    /\ section = <<>>
    /\ html = None
    /\ toc = None

InitPath ==
    /\ pathIn \in PathInputs
    /\ pathOut = NotCalled
    /\ IdleBadgeVars
    /\ IdleRun
    /\ IdleTask
    /\ IdleMain
    /\ IdleReport
    /\ IdleRender
    /\ IdleEnv

ValidateHomePath ==
    /\ pathOut.status = "none"
    /\ pathOut' = validate_home_path(pathIn.path, pathIn.cwd)
    /\ UNCHANGED <<pathIn, badgeVars, runVars, taskVars, mainVars, reportVars, renderVars, envVars>>

NextPath == ValidateHomePath

SpecPath == InitPath /\ [][NextPath]_vars

\* C2: validate_home_path returns the resolved path exactly when the path
\* resolves to the home directory or a descendant of it, and raises for every
\* path that resolves elsewhere (a sibling directory whose name begins with
\* the home directory's name included).
C2_HomeOrDescendantOnly ==
    pathOut.status # "none" =>
        LET resolved == Resolve(ExpandUser(pathIn.path), pathIn.cwd)
        IN  IF IsUnder(Home, resolved)
            THEN pathOut = Returned(resolved)
            ELSE pathOut.status = "raised"

(***************************************************************************)
(* The result classifier.  Every text is a sequence of characters.         *)
(***************************************************************************)
ExceptionTag ==
    <<"[", "e", "x", "c", "e", "p", "t", "i", "o", "n", "]">>

ExceptionTagUpper ==
    <<"[", "E", "x", "c", "e", "p", "t", "i", "o", "n", "]">>

OperationNotPermitted ==
    <<"o", "p", "e", "r", "a", "t", "i", "o", "n", " ", "n", "o", "t", " ",
      "p", "e", "r", "m", "i", "t", "t", "e", "d">>

OperationNotPermittedMixed ==
    <<"O", "p", "e", "r", "a", "t", "i", "o", "n", " ", "N", "o", "t", " ",
      "P", "e", "r", "m", "i", "t", "t", "e", "d">>

NotAuthorized ==
    <<"n", "o", "t", " ", "a", "u", "t", "h", "o", "r", "i", "z", "e", "d">>

PermissionDenied ==
    <<"p", "e", "r", "m", "i", "s", "s", "i", "o", "n", " ", "d", "e", "n",
      "i", "e", "d">>

RequiresFullDiskAccess ==
    <<"r", "e", "q", "u", "i", "r", "e", "s", " ", "f", "u", "l", "l", " ",
      "d", "i", "s", "k", " ", "a", "c", "c", "e", "s", "s">>

NoSuchFile ==
    <<"N", "o", " ", "s", "u", "c", "h", " ", "f", "i", "l", "e">>

\* the stderr phrases the classifier is tried on
ErrPhrases ==
    {ExceptionTag, ExceptionTagUpper, OperationNotPermittedMixed, NotAuthorized,
     PermissionDenied, RequiresFullDiskAccess, NoSuchFile}

\* str.lower() of one character
LowerChar(c) ==
    CASE c = "A" -> "a"
      [] c = "B" -> "b"
      [] c = "C" -> "c"
      [] c = "D" -> "d"
      [] c = "E" -> "e"
      [] c = "F" -> "f"
      [] c = "G" -> "g"
      [] c = "H" -> "h"
      [] c = "I" -> "i"
      [] c = "J" -> "j"
      [] c = "K" -> "k"
      [] c = "L" -> "l"
      [] c = "M" -> "m"
      [] c = "N" -> "n"
      [] c = "O" -> "o"
      [] c = "P" -> "p"
      [] c = "Q" -> "q"
      [] c = "R" -> "r"
      [] c = "S" -> "s"
      [] c = "T" -> "t"
      [] c = "U" -> "u"
      [] c = "V" -> "v"
      [] c = "W" -> "w"
      [] c = "X" -> "x"
      [] c = "Y" -> "y"
      [] c = "Z" -> "z"
      [] OTHER -> c

Lower(text) == [i \in 1..Len(text) |-> LowerChar(text[i])]

PermissionPhrases ==
    {OperationNotPermitted, NotAuthorized, PermissionDenied, RequiresFullDiskAccess}

Badge(status, label, code) == [status |-> status, label |-> label, code |-> code]

\* the classifier with the skip test after the exit-code test (a mutant)
badge_exit_code_first(r) ==
    IF r.returncode = Some(0) THEN Badge("ok", "OK", None)
    ELSE IF Truthy(r.skipped_reason) THEN Badge("warn", "SKIPPED", None)
    ELSE IF r.returncode = None THEN Badge("warn", "TIMEOUT", None)
    ELSE Badge("bad", "RC", r.returncode)

\* the classifier without the permission-denied downgrade (a mutant)
badge_no_permission_row(r) ==
    IF Truthy(r.skipped_reason) THEN Badge("warn", "SKIPPED", None)
    ELSE IF r.returncode = Some(0) THEN Badge("ok", "OK", None)
    ELSE IF r.returncode = None
         THEN IF StartsWith(r.stderr, ExceptionTag)
              THEN Badge("bad", "EXC", None)
              ELSE Badge("warn", "TIMEOUT", None)
    ELSE IF r.returncode[1] \in {126, 127} THEN Badge("warn", "MISSING", None)
    ELSE IF r.returncode[1] = 1 THEN Badge("warn", "RC", Some(1))
    ELSE Badge("bad", "RC", r.returncode)

badge_for_result(r) ==
    IF Truthy(r.skipped_reason) THEN Badge("warn", "SKIPPED", None)
    ELSE IF r.returncode = Some(0) THEN Badge("ok", "OK", None)
    ELSE IF r.returncode = None
         THEN IF StartsWith(r.stderr, ExceptionTag)
              THEN Badge("bad", "EXC", None)
              ELSE Badge("warn", "TIMEOUT", None)
    ELSE IF r.returncode[1] \in {126, 127} THEN Badge("warn", "MISSING", None)
    ELSE LET err == Lower(r.stderr)
         IN  IF \E s \in PermissionPhrases : Contains(err, s)
             THEN Badge("warn", "RC", r.returncode)
             ELSE IF r.returncode[1] = 1 THEN Badge("warn", "RC", Some(1))
             ELSE Badge("bad", "RC", r.returncode)

ExitCodes == {-9, 0, 1, 2, 126, 127}

SkipReasons == {None, Some(<<>>), Some(<<"r">>)}

BadgeInputs ==
    [returncode : {None} \cup {Some(c) : c \in ExitCodes},
     stderr : {Flatten(ps) : ps \in SeqsUpTo(ErrPhrases, MaxErrPhrases)},
     skipped_reason : SkipReasons]

InitBadge ==
    /\ result \in BadgeInputs
    /\ badge = IdleBadge
    /\ IdlePath
    /\ IdleRun
    /\ IdleTask
    /\ IdleMain
    /\ IdleReport
    /\ IdleRender
    /\ IdleEnv

BadgeForResult ==
    /\ badge.status = "none"
    /\ badge' = badge_for_result(result)
    /\ UNCHANGED <<pathVars, result, runVars, taskVars, mainVars, reportVars, renderVars, envVars>>

NextBadge == BadgeForResult

SpecBadge == InitBadge /\ [][NextBadge]_vars

\* The classification table of the specification, one row per line.
TableRows == 1..8

RowMatches(i, r) ==
    CASE i = 1 -> Truthy(r.skipped_reason)
      [] i = 2 -> r.returncode = Some(0)
      [] i = 3 -> r.returncode = None /\ StartsWith(r.stderr, ExceptionTag)
      [] i = 4 -> r.returncode = None
      [] i = 5 -> r.returncode \in {Some(126), Some(127)}
      [] i = 6 -> \E s \in PermissionPhrases : Contains(Lower(r.stderr), s)
      [] i = 7 -> r.returncode = Some(1)
      [] i = 8 -> TRUE

RowOutput(i, r) ==
    CASE i = 1 -> Badge("warn", "SKIPPED", None)
      [] i = 2 -> Badge("ok", "OK", None)
      [] i = 3 -> Badge("bad", "EXC", None)
      [] i = 4 -> Badge("warn", "TIMEOUT", None)
      [] i = 5 -> Badge("warn", "MISSING", None)
      [] i = 6 -> Badge("warn", "RC", r.returncode)
      [] i = 7 -> Badge("warn", "RC", Some(1))
      [] i = 8 -> Badge("bad", "RC", r.returncode)

FirstRow(r) == CHOOSE i \in TableRows :
    RowMatches(i, r) /\ \A j \in TableRows : j < i => ~RowMatches(j, r)

\* C7: badge_for_result is total and equals the classification table read top
\* to bottom with the first matching row winning, for every combination of
\* skip reason, exit code and stderr text.
C7_BadgeEqualsTable ==
    badge.status # "none" =>
        /\ badge.status \in {"ok", "warn", "bad"}
        /\ badge = RowOutput(FirstRow(result), result)

\* a permission-denied stderr with an exit code that is neither 0, 1, 126 nor 127
C7_Witness ==
    /\ badge = Badge("warn", "RC", Some(2))
    /\ result.skipped_reason = None
    /\ result.stderr = NoSuchFile \o OperationNotPermittedMixed

\* C8 as stated: exit code 0 always yields ok whatever the stderr text, and a
\* skip reason always yields warn/SKIPPED whatever the exit code.
C8_ExitZeroOkAndSkipWarn ==
    badge.status # "none" =>
        /\ (result.returncode = Some(0) => badge.status = "ok")
        /\ (Truthy(result.skipped_reason) => badge = Badge("warn", "SKIPPED", None))

\* C8 amended: exit code 0 without a skip reason yields ok whatever the stderr
\* text, and a skip reason yields warn/SKIPPED whatever the exit code, 0 included.
C8_ExitZeroOkUnlessSkipped ==
    badge.status # "none" =>
        /\ (result.returncode = Some(0) /\ ~Truthy(result.skipped_reason)
               => badge = Badge("ok", "OK", None))
        /\ (Truthy(result.skipped_reason) => badge = Badge("warn", "SKIPPED", None))

\* a skipped result that also carries exit code 0 and a permission-denied stderr
C8_Witness ==
    /\ badge = Badge("warn", "SKIPPED", None)
    /\ result.returncode = Some(0)
    /\ result.stderr = PermissionDenied

(***************************************************************************)
(* The command runner.  LF is the newline character and ESC the escape     *)
(* character.  The stream alphabet has no "]" and no BEL, so the OSC       *)
(* alternative of ANSI_ESCAPE_RE never matches and only the CSI and the    *)
(* two-byte alternatives are modelled.                                     *)
(***************************************************************************)
LF == "LF"

ESC == "ESC"

StreamChars == {"a", LF, ESC, "["}

\* [0-?] and [ -/] of the CSI alternative: no stream character is in either
CsiParamChars == {}

CsiIntermediateChars == {}

\* [@-~]
CsiFinalChars == {"a", "["}

\* [@-_]
TwoByteChars == {"["}

RECURSIVE SkipWhile(_, _, _)
SkipWhile(text, i, class) ==
    IF i <= Len(text) /\ text[i] \in class THEN SkipWhile(text, i + 1, class) ELSE i

\* the index after the escape sequence that starts at i, or i when none does
EscapeEnd(text, i) ==
    LET j == SkipWhile(text, SkipWhile(text, i + 2, CsiParamChars), CsiIntermediateChars)
    IN  IF text[i] # ESC \/ i + 1 > Len(text) THEN i
        ELSE IF text[i + 1] = "[" /\ j <= Len(text) /\ text[j] \in CsiFinalChars THEN j + 1
        ELSE IF text[i + 1] \in TwoByteChars THEN i + 2
        ELSE i

RECURSIVE StripFrom(_, _)
StripFrom(text, i) ==
    IF i > Len(text) THEN <<>>
    ELSE LET e == EscapeEnd(text, i)
         IN  IF e > i THEN StripFrom(text, e) ELSE <<text[i]>> \o StripFrom(text, i + 1)

\* _strip_ansi on a str
strip_ansi(text) == StripFrom(text, 1)

\* str.splitlines(): the pieces between newlines, without a last empty piece
RECURSIVE SplitFrom(_, _, _)
SplitFrom(text, i, cur) ==
    IF i > Len(text) THEN (IF cur = <<>> THEN <<>> ELSE <<cur>>)
    ELSE IF text[i] = LF THEN <<cur>> \o SplitFrom(text, i + 1, <<>>)
    ELSE SplitFrom(text, i + 1, Append(cur, text[i]))

splitlines(text) == SplitFrom(text, 1, <<>>)

\* "\n".join(lines)
RECURSIVE JoinLines(_)
JoinLines(lines) ==
    IF lines = <<>> THEN <<>>
    ELSE IF Len(lines) = 1 THEN lines[1]
    ELSE lines[1] \o <<LF>> \o JoinLines(Tail(lines))

\* the slice s[:n] of Python, n negative included
Slice(s, n) ==
    IF n >= 0 THEN SubSeq(s, 1, IF n < Len(s) THEN n ELSE Len(s))
    ELSE SubSeq(s, 1, IF Len(s) + n > 0 THEN Len(s) + n ELSE 0)

\* _truncate_text without the character cap (a mutant)
truncate_lines_only(text, max_chars, max_lines) ==
    IF text = <<>> THEN [text |-> <<>>, truncated |-> FALSE]
    ELSE LET lines == splitlines(text)
         IN  [text |-> JoinLines(IF Len(lines) > max_lines THEN Slice(lines, max_lines)
                                 ELSE lines),
              truncated |-> Len(lines) > max_lines]

truncate_text(text, max_chars, max_lines) ==
    IF text = <<>> THEN [text |-> <<>>, truncated |-> FALSE]
    ELSE LET lines == splitlines(text)
             cut == Len(lines) > max_lines
             joined == JoinLines(IF cut THEN Slice(lines, max_lines) ELSE lines)
         IN  IF Len(joined) > max_chars
             THEN [text |-> Slice(joined, max_chars), truncated |-> TRUE]
             ELSE [text |-> joined, truncated |-> cut]

OutputTruncatedNote ==
    <<"[", "o", "u", "t", "p", "u", "t", " ", "t", "r", "u", "n", "c", "a",
      "t", "e", "d", "]">>

StderrTruncatedNote ==
    <<"[", "s", "t", "d", "e", "r", "r", " ", "t", "r", "u", "n", "c", "a",
      "t", "e", "d", "]">>

TimedOutNote ==
    <<"[", "c", "o", "m", "m", "a", "n", "d", " ", "t", "i", "m", "e", "d",
      " ", "o", "u", "t", "]">>

SkippedPrefix ==
    <<"S", "k", "i", "p", "p", "e", "d", ":", " ">>

OSErrorText ==
    <<" ", "O", "S", "E", "r", "r", "o", "r", ":", " ", "x">>

CommandResult(duration_s, returncode, stdout, stderr, skipped_reason) ==
    [duration_s |-> duration_s, returncode |-> returncode, stdout |-> stdout,
     stderr |-> stderr, skipped_reason |-> skipped_reason]

\* (e.stdout or ""): None and an empty value become the empty str
OrEmpty(stream) ==
    IF stream.type = "none" \/ stream.text = <<>>
    THEN [type |-> "str", text |-> <<>>]
    ELSE stream

\* the captured, stripped and capped stream with its truncation note
Captured(text, max_chars, max_lines, note) ==
    LET t == truncate_text(strip_ansi(text), max_chars, max_lines)
    IN  IF t.truncated THEN t.text \o <<LF, LF>> \o note ELSE t.text

\* the TimeoutExpired handler, which runs outside the try block: an exception
\* raised in it leaves run_command
timeout_handler(c) ==
    LET o == c.outcome
        so == OrEmpty(o.stdout)
        se == OrEmpty(o.stderr)
        out == truncate_text(strip_ansi(so.text), c.max_chars, c.max_lines).text
        err == truncate_text(strip_ansi(se.text), c.max_chars, c.max_lines).text
    IN  IF so.type = "bytes" \/ se.type = "bytes"
        THEN Raised("TypeError")   \* ANSI_ESCAPE_RE is a str pattern
        ELSE Returned(CommandResult(
                 o.elapsed, None,
                 IF out # <<>> THEN out \o <<LF, LF>> \o TimedOutNote ELSE TimedOutNote,
                 IF err # <<>> THEN err \o <<LF, LF>> \o TimedOutNote ELSE err,
                 None))

\* run_command without the skip test (a mutant)
run_command_no_skip(c) ==
    LET o == c.outcome
    IN  IF o.kind = "exit"
        THEN Returned(CommandResult(
                 o.elapsed, Some(o.returncode),
                 Captured(o.stdout.text, c.max_chars, c.max_lines,
                          OutputTruncatedNote),
                 Captured(o.stderr.text, c.max_chars, c.max_lines,
                          StderrTruncatedNote),
                 None))
        ELSE Returned(CommandResult(o.elapsed, None, <<>>,
                                    ExceptionTag \o OSErrorText, None))

run_command(c) ==
    LET o == c.outcome
    IN  IF Truthy(c.skip_reason)
        THEN Returned(CommandResult(0, None, SkippedPrefix \o c.skip_reason[1], <<>>,
                                    c.skip_reason))
        ELSE IF o.kind = "exit"
        THEN Returned(CommandResult(
                 o.elapsed, Some(o.returncode),
                 Captured(o.stdout.text, c.max_chars, c.max_lines,
                          OutputTruncatedNote),
                 Captured(o.stderr.text, c.max_chars, c.max_lines,
                          StderrTruncatedNote),
                 None))
        ELSE IF o.kind = "timeout" THEN timeout_handler(c)
        ELSE Returned(CommandResult(o.elapsed, None, <<>>,
                                    ExceptionTag \o OSErrorText, None))

\* what the environment hands back for one stream
StrStreams(texts) == [type : {"str"}, text : texts]

PartialStreams(texts) ==
    {[type |-> "none", text |-> <<>>]} \cup [type : {"str", "bytes"}, text : texts]

StdoutTexts == SeqsUpTo(StreamChars, MaxOutLen)

StderrTexts == {<<>>, <<"a">>, <<"a", LF, "a", LF>>, ExceptionTag \o <<"a">>}

NoStream == [type |-> "none", text |-> <<>>]

ElapsedValues == {1, 2}

\* the command ran to its end: text=True makes both streams str
ExitOutcomes ==
    [kind : {"exit"}, returncode : {0, 1}, elapsed : ElapsedValues,
     stdout : StrStreams(StdoutTexts), stderr : StrStreams(StderrTexts)]

\* subprocess.TimeoutExpired: each stream is None when nothing was read, and
\* otherwise str or bytes, as the platform's subprocess module leaves it
TimeoutOutcomes ==
    [kind : {"timeout"}, returncode : {0}, elapsed : ElapsedValues,
     stdout : PartialStreams(StdoutTexts), stderr : PartialStreams(StderrTexts)]

\* subprocess.run raised another exception
ErrorOutcomes ==
    [kind : {"error"}, returncode : {0}, elapsed : ElapsedValues,
     stdout : {NoStream}, stderr : {NoStream}]

LimitValues == 1..MaxLimit

\* the default of --max-chars
DEFAULT_MAX_CHARS == 20000

\* the default of --max-lines
DEFAULT_MAX_LINES == 500

\* small limits that cut the model's texts, and the defaults, which do not
RunInputs ==
    [skip_reason : {None}, max_chars : LimitValues, max_lines : LimitValues,
     outcome : ExitOutcomes \cup TimeoutOutcomes \cup ErrorOutcomes]
    \cup
    [skip_reason : {None}, max_chars : {DEFAULT_MAX_CHARS}, max_lines : {DEFAULT_MAX_LINES},
     outcome : ExitOutcomes \cup TimeoutOutcomes \cup ErrorOutcomes]
    \cup
    [skip_reason : {Some(<<>>), Some(<<"r">>)}, max_chars : LimitValues,
     max_lines : LimitValues,
     outcome : ErrorOutcomes \cup
               {o \in ExitOutcomes : o.stdout.text = <<"a">> /\ o.stderr.text = <<>>}]

InitRun ==
    /\ call \in RunInputs
    /\ ret = NotCalled
    /\ spawned = 0
    /\ IdlePath
    /\ IdleBadgeVars
    /\ IdleTask
    /\ IdleMain
    /\ IdleReport
    /\ IdleRender
    /\ IdleEnv

\* the calls of subprocess.run that run_command makes: none when it returns
\* at the skip test
Spawns(c) == IF Truthy(c.skip_reason) THEN 0 ELSE 1

RunCommand ==
    /\ ret.status = "none"
    /\ ret' = run_command(call)
    /\ spawned' = spawned + Spawns(call)
    /\ UNCHANGED <<call, pathVars, badgeVars, taskVars, mainVars, reportVars, renderVars, envVars>>

\* the report classifies the result that run_command returned
ClassifyReturned ==
    /\ ret.status = "returned"
    /\ badge.status = "none"
    /\ result' = [returncode |-> ret.value.returncode, stderr |-> ret.value.stderr,
                  skipped_reason |-> ret.value.skipped_reason]
    /\ badge' = badge_for_result(ret.value)
    /\ UNCHANGED <<pathVars, runVars, taskVars, mainVars, reportVars, renderVars, envVars>>

NextRun ==
    \/ RunCommand
    \/ ClassifyReturned

SpecRun == InitRun /\ [][NextRun]_vars

\* C4: run_command never raises: whatever the spawned command does (skipped,
\* exit with any code, timeout with or without partial output of either type,
\* launch failure) it returns a CommandResult.
C4_RunCommandNeverRaises ==
    ret.status # "none" => ret.status = "returned"

\* C9: truncating again, with the same limits, a stdout or stderr text that
\* run_command returned gives back the same text.
C9_TruncationIdempotent ==
    ret.status = "returned" =>
        /\ truncate_text(ret.value.stdout, call.max_chars, call.max_lines).text
               = ret.value.stdout
        /\ truncate_text(ret.value.stderr, call.max_chars, call.max_lines).text
               = ret.value.stderr

\* the partial output of a stream, as run_command keeps it, followed by the
\* timed-out marker
PartialThenMarker(stream, max_chars, max_lines) ==
    LET kept == truncate_text(strip_ansi(stream.text), max_chars, max_lines).text
    IN  IF kept = <<>> THEN TimedOutNote ELSE kept \o <<LF, LF>> \o TimedOutNote

TimedOut == ret.status # "none" /\ ~Truthy(call.skip_reason) /\ call.outcome.kind = "timeout"

\* C13: when the command times out run_command returns a result with exit
\* code none in which stdout and stderr each hold the partial output captured
\* so far followed by the timed-out marker, whether or not there was partial
\* output.
C13_TimeoutKeepsPartialOutput ==
    TimedOut =>
        /\ ret.status = "returned"
        /\ ret.value.returncode = None
        /\ ret.value.stdout
               = PartialThenMarker(call.outcome.stdout, call.max_chars, call.max_lines)
        /\ ret.value.stderr
               = PartialThenMarker(call.outcome.stderr, call.max_chars, call.max_lines)

Classified == badge.status # "none"

\* C14: every result of the timeout path of run_command is classified
\* warn/TIMEOUT and every result of its launch or execution failure path is
\* classified bad/EXC, whatever stdout or stderr text the command had written.
C14_TimeoutWarnExceptionBad ==
    Classified /\ ~Truthy(call.skip_reason) =>
        /\ call.outcome.kind = "timeout" => badge = Badge("warn", "TIMEOUT", None)
        /\ call.outcome.kind = "error" => badge = Badge("bad", "EXC", None)

\* C15: when run_command is called with a skip reason (a non-empty text) no
\* subprocess is started, and the returned result carries that skip reason,
\* exit code none and duration 0.
C15_SkipSpawnsNothing ==
    ret.status # "none" /\ Truthy(call.skip_reason) =>
        /\ spawned = 0
        /\ ret.status = "returned"
        /\ ret.value.skipped_reason = call.skip_reason
        /\ ret.value.returncode = None
        /\ ret.value.duration_s = 0

\* a call with a skip reason, for a command that would have run and exited
C15_Witness ==
    /\ ret.status = "returned"
    /\ call.skip_reason = Some(<<"r">>)
    /\ call.outcome.kind = "exit"
    /\ ret.value.stdout = SkippedPrefix \o <<"r">>

(***************************************************************************)
(* The filesystem of the maintenance tasks: a function from the paths      *)
(* that exist to [kind, data].  The root always exists.  The size that     *)
(* du_kb reports only decorates log lines and is left out of them.         *)
(***************************************************************************)
Dir == [kind |-> "dir", data |-> <<>>]

File(data) == [kind |-> "file", data |-> data]

Exists(f, p) == p \in DOMAIN f

IsDir(f, p) == p \in DOMAIN f /\ f[p].kind = "dir"

Prefixes(p) == {SubSeq(p, 1, k) : k \in 0..Len(p)}

Parent(p) == SubSeq(p, 1, Len(p) - 1)

Name(p) == p[Len(p)]

Children(f, p) == {q \in DOMAIN f : Len(q) = Len(p) + 1 /\ IsUnder(p, q)}

Descendants(f, p) == {q \in DOMAIN f : Len(q) > Len(p) /\ IsUnder(p, q)}

\* Path.mkdir(parents=True, exist_ok=True)
Mkdirs(f, p) ==
    [q \in DOMAIN f \cup Prefixes(p) |-> IF q \in DOMAIN f THEN f[q] ELSE Dir]

\* the filesystem without the paths of gone
Without(f, gone) == [q \in DOMAIN f \ gone |-> f[q]]

\* Path.unlink
Unlink(f, p) == Without(f, {p})

\* shutil.rmtree
Rmtree(f, p) == Without(f, {p} \cup Descendants(f, p))

\* writing (creating or replacing) a file
WriteFile(f, p, data) == [q \in DOMAIN f \cup {p} |-> IF q = p THEN File(data) ELSE f[q]]

\* the paths created, removed or modified between two filesystems
Changed(f, g) ==
    {q \in DOMAIN f \cup DOMAIN g : q \notin DOMAIN f \/ q \notin DOMAIN g \/ f[q] # g[q]}

\* a set as a sequence, in the order the directory listing yields it
RECURSIVE SetToSeq(_)
SetToSeq(S) ==
    IF S = {} THEN <<>>
    ELSE LET x == CHOOSE y \in S : TRUE IN <<x>> \o SetToSeq(S \ {x})

EndsWith(s, suffix) ==
    Len(suffix) <= Len(s) /\ SubSeq(s, Len(s) - Len(suffix) + 1, Len(s)) = suffix

MODE_REPORT == "report"

MODE_DRY_RUN == "dry-run"

MODE_APPLY == "apply"

Modes == {MODE_REPORT, MODE_DRY_RUN, MODE_APPLY}

\* what a task call did: how it ended, the filesystem it left, its log lines
\* and the commands it spawned
TaskResult(status, exc, f, log, cmds) ==
    [status |-> status, exc |-> exc, fs |-> f, log |-> log, cmds |-> cmds]

(***************************************************************************)
(* Dates.  strftime("%Y-%m-%d") of today plus n days, for the days around  *)
(* today = 2024-12-31.                                                     *)
(***************************************************************************)
DateStr(n) ==
    CASE n = -2 -> <<"2", "0", "2", "4", "-", "1", "2", "-", "2", "9">>
      [] n = -1 -> <<"2", "0", "2", "4", "-", "1", "2", "-", "3", "0">>
      [] n = 0 -> <<"2", "0", "2", "4", "-", "1", "2", "-", "3", "1">>
      [] n = 1 -> <<"2", "0", "2", "5", "-", "0", "1", "-", "0", "1">>
      [] n = 2 -> <<"2", "0", "2", "5", "-", "0", "1", "-", "0", "2">>
      [] n = 3 -> <<"2", "0", "2", "5", "-", "0", "1", "-", "0", "3">>

Digits == {"0", "1", "2", "3", "4", "5", "6", "7", "8", "9"}

\* the code point order of the characters of a date
CharRank(c) ==
    CASE c = "-" -> 0
      [] c = "0" -> 1
      [] c = "1" -> 2
      [] c = "2" -> 3
      [] c = "3" -> 4
      [] c = "4" -> 5
      [] c = "5" -> 6
      [] c = "6" -> 7
      [] c = "7" -> 8
      [] c = "8" -> 9
      [] c = "9" -> 10

\* a <= b on strings of equal length
RECURSIVE StrLeq(_, _)
StrLeq(a, b) ==
    IF a = <<>> THEN TRUE
    ELSE IF Head(a) = Head(b) THEN StrLeq(Tail(a), Tail(b))
    ELSE CharRank(Head(a)) < CharRank(Head(b))

DeleteTag == <<"_", "d", "e", "l", "e", "t", "e", "_">>

ZipSuffix == <<".", "z", "i", "p">>

\* [0-9]{4}-[0-9]{2}-[0-9]{2}
IsDatePattern(d) ==
    /\ Len(d) = 10
    /\ \A i \in {1, 2, 3, 4, 6, 7, 9, 10} : d[i] \in Digits
    /\ d[5] = "-" /\ d[8] = "-"

\* glob("*_delete_*.zip")
GlobMatches(name) ==
    /\ EndsWith(name, ZipSuffix)
    /\ Contains(SubSeq(name, 1, Len(name) - Len(ZipSuffix)), DeleteTag)

\* the date group of .*_delete_([0-9]{4}-[0-9]{2}-[0-9]{2})\.zip$, or None
TaggedDate(name) ==
    LET n == Len(name)
        d == SubSeq(name, n - 13, n - 4)
    IN  IF /\ n >= 22
           /\ EndsWith(name, ZipSuffix)
           /\ IsDatePattern(d)
           /\ SubSeq(name, n - 21, n - 14) = DeleteTag
        THEN Some(d) ELSE None

(***************************************************************************)
(* The maintenance tasks.  Each operator is one call: it takes the         *)
(* filesystem, the arguments and what the environment does to the calls    *)
(* the task makes (env), and gives a TaskResult.                           *)
(***************************************************************************)
\* the working directory of the process
Cwd == Home

Cmd(prog, verb, target) == [prog |-> prog, verb |-> verb, target |-> target]

Entry(msg, what, item) == [msg |-> msg, what |-> what, item |-> item]

TaskRaised(exc, f, log, cmds) == TaskResult("raised", exc, f, log, cmds)

TaskReturned(f, log, cmds) == TaskResult("returned", "", f, log, cmds)

\* the loop of task_cleanup_archives with the deletion not guarded by the mode
\* (a mutant)
RECURSIVE cleanup_loop_unguarded(_, _, _, _)
cleanup_loop_unguarded(f, candidates, mode, env) ==
    IF candidates = <<>> THEN [fs |-> f, log |-> <<>>]
    ELSE LET p == Head(candidates)
             rest == cleanup_loop_unguarded(Unlink(f, p), Tail(candidates), mode, env)
         IN  [fs |-> rest.fs, log |-> <<Entry("deleted", "", p)>> \o rest.log]

\* the loop of task_cleanup_archives in which a failed deletion ends the loop
\* (a mutant)
RECURSIVE cleanup_loop_stops(_, _, _, _)
cleanup_loop_stops(f, candidates, mode, env) ==
    IF candidates = <<>> THEN [fs |-> f, log |-> <<>>]
    ELSE LET p == Head(candidates)
             fails == mode = MODE_APPLY /\ p \in env.unlinkFails
             step == IF mode # MODE_APPLY THEN [fs |-> f, msg |-> "would delete"]
                     ELSE IF fails THEN [fs |-> f, msg |-> "failed to delete"]
                     ELSE [fs |-> Unlink(f, p), msg |-> "deleted"]
             rest == IF fails THEN [fs |-> f, log |-> <<>>]
                     ELSE cleanup_loop_stops(step.fs, Tail(candidates), mode, env)
         IN  [fs |-> rest.fs, log |-> <<Entry(step.msg, "", p)>> \o rest.log]

\* for p in candidates: ... of task_cleanup_archives
RECURSIVE cleanup_loop(_, _, _, _)
cleanup_loop(f, candidates, mode, env) ==
    IF candidates = <<>> THEN [fs |-> f, log |-> <<>>]
    ELSE LET p == Head(candidates)
             step == IF mode = MODE_APPLY
                     THEN IF p \in env.unlinkFails
                          THEN [fs |-> f, msg |-> "failed to delete"]
                          ELSE [fs |-> Unlink(f, p), msg |-> "deleted"]
                     ELSE [fs |-> f, msg |-> "would delete"]
             rest == cleanup_loop(step.fs, Tail(candidates), mode, env)
         IN  [fs |-> rest.fs, log |-> <<Entry(step.msg, "", p)>> \o rest.log]

\* the archives of dir whose tagged date is today or earlier
Candidates(f, dir) ==
    {p \in Children(f, dir) :
        /\ GlobMatches(Name(p))
        /\ TaggedDate(Name(p)) # None
        /\ StrLeq(TaggedDate(Name(p))[1], DateStr(0))}

task_cleanup_archives(f, archive_dir, mode, env) ==
    LET v == validate_home_path(archive_dir, Cwd)
        dir == v.value
        candidates == SetToSeq(Candidates(f, dir))
        done == cleanup_loop(f, candidates, mode, env)
    IN  IF v.status = "raised" THEN TaskRaised(v.exc, f, <<>>, <<>>)
        ELSE IF ~Exists(f, dir)
        THEN TaskReturned(f, <<Entry("directory not found", "", dir)>>, <<>>)
        ELSE IF candidates = <<>>
        THEN TaskReturned(f, <<Entry("no archives eligible", "", dir)>>, <<>>)
        ELSE TaskReturned(done.fs, <<Entry("eligible", "", dir)>> \o done.log, <<>>)

\* str.replace(' ', '_')
ReplaceSpaces(name) == [i \in 1..Len(name) |-> IF name[i] = " " THEN "_" ELSE name[i]]

\* archive_folder without the test of zip's exit status: the folder is removed
\* whenever zip returned
archive_folder_unchecked(f, sup, dir, folder, delete_date, mode, env) ==
    LET folder_path == Append(sup, folder)
        archive_path == Append(dir, ReplaceSpaces(folder) \o DeleteTag \o delete_date \o ZipSuffix)
        zip == Cmd("zip", "-r", archive_path)
    IN  IF ~IsDir(f, folder_path)
        THEN [fs |-> f, log |-> <<Entry("skip (not found)", "", folder_path)>>,
              cmds |-> <<>>]
        ELSE IF mode # MODE_APPLY
        THEN [fs |-> f, log |-> <<Entry("would archive", "", folder_path)>>,
              cmds |-> <<>>]
        ELSE [fs |-> Rmtree(f, folder_path),
              log |-> <<Entry("archiving", "", folder_path),
                        Entry("archived and removed", "", folder_path)>>,
              cmds |-> <<zip>>]

\* one folder of task_archive_orphans: the filesystem, log lines and commands
\* after it
archive_folder(f, sup, dir, folder, delete_date, mode, env) ==
    LET folder_path == Append(sup, folder)
        archive_name == ReplaceSpaces(folder) \o DeleteTag \o delete_date \o ZipSuffix
        archive_path == Append(dir, archive_name)
        zip == Cmd("zip", "-r", archive_path)
        old == IF Exists(f, archive_path) /\ f[archive_path].kind = "file"
               THEN f[archive_path].data ELSE <<>>
        zipped == WriteFile(f, archive_path, Append(old, folder))
    IN  IF ~IsDir(f, folder_path)
        THEN [fs |-> f, log |-> <<Entry("skip (not found)", "", folder_path)>>,
              cmds |-> <<>>]
        ELSE IF mode # MODE_APPLY
        THEN [fs |-> f, log |-> <<Entry("would archive", "", folder_path)>>,
              cmds |-> <<>>]
        ELSE IF folder \in env.zipRaises
        THEN [fs |-> f,
              log |-> <<Entry("archiving", "", folder_path),
                        Entry("archive failed", "", folder_path)>>,
              cmds |-> <<zip>>]
        ELSE IF folder \in env.zipFails
        THEN [fs |-> f,
              log |-> <<Entry("archiving", "", folder_path),
                        Entry("zip failed", "", folder_path)>>,
              cmds |-> <<zip>>]
        ELSE IF folder \in env.rmtreeFails
        THEN [fs |-> zipped,
              log |-> <<Entry("archiving", "", folder_path),
                        Entry("archive failed", "", folder_path)>>,
              cmds |-> <<zip>>]
        ELSE [fs |-> Rmtree(zipped, folder_path),
              log |-> <<Entry("archiving", "", folder_path),
                        Entry("archived and removed", "", folder_path)>>,
              cmds |-> <<zip>>]

\* for folder in folders: ... of task_archive_orphans
RECURSIVE archive_loop(_, _, _, _, _, _, _)
archive_loop(f, sup, dir, folders, delete_date, mode, env) ==
    IF folders = <<>> THEN [fs |-> f, log |-> <<>>, cmds |-> <<>>]
    ELSE LET one == archive_folder(f, sup, dir, Head(folders), delete_date, mode, env)
             rest == archive_loop(one.fs, sup, dir, Tail(folders), delete_date, mode, env)
         IN  [fs |-> rest.fs, log |-> one.log \o rest.log, cmds |-> one.cmds \o rest.cmds]

\* ensure_dir
ensure_dir(f, p) == Mkdirs(f, p)

task_archive_orphans(f, app_support_dir, archive_dir, folders, days, mode, env) ==
    LET sup == Resolve(ExpandUser(app_support_dir), Cwd)
        v == validate_home_path(archive_dir, Cwd)
        dir == v.value
        made == ensure_dir(f, dir)
        delete_date == DateStr(days)
        done == archive_loop(made, sup, dir, folders, delete_date, mode, env)
    IN  IF v.status = "raised" THEN TaskRaised(v.exc, f, <<>>, <<>>)
        ELSE TaskReturned(done.fs,
                          <<Entry("delete date set", "", <<delete_date>>)>> \o done.log,
                          done.cmds)

CHROME_CLEAN_DIRS ==
    <<<<"S", "e", "r", "v", "i", "c", "e", " ", "W", "o", "r", "k", "e", "r">>,
      <<"I", "n", "d", "e", "x", "e", "d", "D", "B">>,
      <<"F", "i", "l", "e", " ", "S", "y", "s", "t", "e", "m">>,
      <<"L", "o", "c", "a", "l", " ", "S", "t", "o", "r", "a", "g", "e">>,
      <<"G", "P", "U", "C", "a", "c", "h", "e">>,
      <<"W", "e", "b", "S", "t", "o", "r", "a", "g", "e">>,
      <<"A", "p", "p", "l", "i", "c", "a", "t", "i", "o", "n", " ", "C", "a", "c", "h", "e">>,
      <<"P", "e", "p", "p", "e", "r", " ", "D", "a", "t", "a">>,
      <<"P", "l", "a", "t", "f", "o", "r", "m", " ", "N", "o", "t", "i", "f", "i", "c", "a", "t", "i", "o", "n", "s">>,
      <<"S", "e", "s", "s", "i", "o", "n", " ", "S", "t", "o", "r", "a", "g", "e">>>>

ProfilePrefix == <<"P", "r", "o", "f", "i", "l", "e", " ">>

DefaultProfile == <<"D", "e", "f", "a", "u", "l", "t">>

\* close_chrome sending the three requests whatever it observes (a mutant)
close_chrome_all_requests(env) ==
    [ok |-> env.chromeStops \in {"quit", "term", "kill"},
     cmds |-> <<Cmd("osascript", "quit", <<>>), Cmd("pkill", "-TERM", <<>>),
                Cmd("pkill", "-KILL", <<>>)>>]

\* close_chrome: quit request, then terminate, then kill, each only while the
\* browser is still running.  env.chromeStops is the request that stops it.
close_chrome(env) ==
    LET quit == Cmd("osascript", "quit", <<>>)
        term == Cmd("pkill", "-TERM", <<>>)
        kill == Cmd("pkill", "-KILL", <<>>)
    IN  IF env.chromeStops = "quit" THEN [ok |-> TRUE, cmds |-> <<quit>>]
        ELSE IF env.chromeStops = "term" THEN [ok |-> TRUE, cmds |-> <<quit, term>>]
        ELSE [ok |-> env.chromeStops = "kill", cmds |-> <<quit, term, kill>>]

\* chrome_running() at the start of the task
chrome_running(env) == env.chromeStops # "stopped"

\* the os.walk loop over one cache directory: everything below it goes, except
\* what cannot be removed and the directories above that
CleanDir(f, dir_path, env) ==
    Without(f, {q \in Descendants(f, dir_path) :
                   \A bad \in env.removeFails : ~IsUnder(q, bad)})

\* for name in CHROME_CLEAN_DIRS: ... for one profile
RECURSIVE clean_names(_, _, _, _, _)
clean_names(f, profile_path, names, mode, env) ==
    IF names = <<>> THEN [fs |-> f, log |-> <<>>]
    ELSE LET dir_path == Append(profile_path, Head(names))
             one == IF ~IsDir(f, dir_path) THEN [fs |-> f, log |-> <<>>]
                    ELSE IF mode = MODE_APPLY
                    THEN [fs |-> CleanDir(f, dir_path, env),
                          log |-> <<Entry("cleaned", "", dir_path)>>]
                    ELSE [fs |-> f, log |-> <<Entry("would clean", "", dir_path)>>]
             rest == clean_names(one.fs, profile_path, Tail(names), mode, env)
         IN  [fs |-> rest.fs, log |-> one.log \o rest.log]

\* for profile in profiles: ... (the cleaning loop)
RECURSIVE clean_profiles(_, _, _, _)
clean_profiles(f, profiles, mode, env) ==
    IF profiles = <<>> THEN [fs |-> f, log |-> <<>>]
    ELSE LET one == clean_names(f, Head(profiles), CHROME_CLEAN_DIRS, mode, env)
             rest == clean_profiles(one.fs, Tail(profiles), mode, env)
         IN  [fs |-> rest.fs, log |-> one.log \o rest.log]

Profiles(f, dir) ==
    {q \in Children(f, dir) :
        /\ IsDir(f, q)
        /\ (Name(q) = DefaultProfile \/ StartsWith(Name(q), ProfilePrefix))}

\* task_chrome_cleanup without the test of the mode before close_chrome
task_chrome_cleanup_any_mode(f, chrome_dir, mode, kill_chrome, env) ==
    LET v == validate_home_path(chrome_dir, Cwd)
        dir == v.value
        closing == close_chrome(env)
        closed == IF chrome_running(env) THEN closing.cmds ELSE <<>>
        profiles == SetToSeq(Profiles(f, dir))
        done == clean_profiles(f, profiles, mode, env)
    IN  IF v.status = "raised" THEN TaskRaised(v.exc, f, <<>>, <<>>)
        ELSE IF ~Exists(f, dir)
        THEN TaskReturned(f, <<Entry("directory not found", "", dir)>>, <<>>)
        ELSE IF chrome_running(env) /\ ~kill_chrome
        THEN TaskReturned(f, <<Entry("chrome is running", "", dir)>>, <<>>)
        ELSE IF chrome_running(env) /\ ~closing.ok
        THEN TaskReturned(f, <<Entry("failed to close chrome", "", dir)>>, closing.cmds)
        ELSE TaskReturned(done.fs, <<Entry("found profiles", "", dir)>> \o done.log, closed)

task_chrome_cleanup(f, chrome_dir, mode, kill_chrome, env) ==
    LET v == validate_home_path(chrome_dir, Cwd)
        dir == v.value
        closing == close_chrome(env)
        closed == IF chrome_running(env) THEN closing.cmds ELSE <<>>
        profiles == SetToSeq(Profiles(f, dir))
        sizes == [i \in 1..Len(profiles) |-> Entry("profile size", "", profiles[i])]
        done == clean_profiles(f, profiles, mode, env)
    IN  IF v.status = "raised" THEN TaskRaised(v.exc, f, <<>>, <<>>)
        ELSE IF ~Exists(f, dir)
        THEN TaskReturned(f, <<Entry("directory not found", "", dir)>>, <<>>)
        ELSE IF chrome_running(env) /\ ~kill_chrome
        THEN TaskReturned(f, <<Entry("chrome is running", "", dir)>>, <<>>)
        ELSE IF chrome_running(env) /\ mode # MODE_APPLY
        THEN TaskReturned(f, <<Entry("would close chrome", "", dir)>>, <<>>)
        ELSE IF chrome_running(env) /\ ~closing.ok
        THEN TaskReturned(f, <<Entry("failed to close chrome", "", dir)>>, closing.cmds)
        ELSE IF profiles = <<>>
        THEN TaskReturned(f, <<Entry("no profiles found", "", dir)>>, closed)
        ELSE TaskReturned(done.fs,
                          <<Entry("found profiles", "", dir)>> \o sizes \o done.log,
                          closed)

\* what rsync -a src dst leaves: a copy of src and of everything below it
Rsync(f, src, dst) ==
    LET target == IF IsDir(f, dst) THEN Append(dst, Name(src)) ELSE dst
        copied == {src} \cup Descendants(f, src)
        At(q) == target \o SubSeq(q, Len(src) + 1, Len(q))
    IN  [t \in DOMAIN f \cup {At(q) : q \in copied} |->
            IF \E q \in copied : At(q) = t
            THEN f[CHOOSE q \in copied : At(q) = t]
            ELSE f[t]]

task_copy_speed_test(f, src_arg, dst_arg, mode, env) ==
    LET src == Resolve(ExpandUser(src_arg), Cwd)
        dst == Resolve(ExpandUser(dst_arg), Cwd)
        rsync == Cmd("rsync", "-ah", dst)
        size == <<Entry("source size", "", src)>>
    IN  IF ~Exists(f, src)
        THEN TaskReturned(f, <<Entry("source not found", "", src)>>, <<>>)
        ELSE IF ~Exists(f, Parent(dst))
        THEN TaskReturned(f, <<Entry("destination parent missing", "", Parent(dst))>>,
                          <<>>)
        ELSE IF mode # MODE_APPLY
        THEN TaskReturned(f, size \o <<Entry("would copy", "", dst)>>, <<>>)
        ELSE IF env.rsyncFails
        THEN TaskReturned(f, size \o <<Entry("starting copy", "", dst),
                                       Entry("rsync failed", "", dst)>>, <<rsync>>)
        ELSE TaskReturned(Rsync(f, src, dst),
                          size \o <<Entry("starting copy", "", dst),
                                    Entry("avg speed", "", dst),
                                    Entry("completed", "", dst)>>, <<rsync>>)

Inkscape == <<"I", "n", "k", "s", "c", "a", "p", "e">>

JupyterLab == <<"J", "u", "p", "y", "t", "e", "r", "L", "a", "b">>

LosslessCut == <<"L", "o", "s", "s", "l", "e", "s", "s", "C", "u", "t">>

RsyncUI == <<"R", "s", "y", "n", "c", "U", "I">>

DEFAULT_MISSING_CASK_APPS == <<Inkscape, JupyterLab, LosslessCut, RsyncUI>>

Applications == <<<<"A", "p", "p", "l", "i", "c", "a", "t", "i", "o", "n", "s">>>>

AppSuffix == <<".", "a", "p", "p">>

\* the cask reinstalled for an application
CaskName(app) ==
    IF app = JupyterLab THEN <<"j", "u", "p", "y", "t", "e", "r", "l", "a", "b", "-", "a", "p", "p">>
    ELSE IF app = LosslessCut THEN Lower(LosslessCut)
    ELSE IF app = RsyncUI THEN Lower(RsyncUI)
    ELSE Lower(app)

\* validate_brew_bin: an absolute path to an executable file
validate_brew_bin(brew_bin) ==
    IF ~brew_bin.absolute \/ ~brew_bin.executable THEN Raised("ValueError")
    ELSE Returned(<<>>)

\* what one step of task_brew_maintenance adds
Step(f, log, cmds, ended) == [fs |-> f, log |-> log, cmds |-> cmds, ended |-> ended]

NoStep(f) == Step(f, <<>>, <<>>, "")

\* run_brew followed by the test of its return code
brew_run(f, desc, verb, env) ==
    Step(f,
         <<Entry("run", verb, <<>>)>>
             \o (IF desc \in env.brewFails THEN <<Entry("brew: failed", desc, <<>>)>>
                 ELSE <<>>),
         <<Cmd("brew", verb, <<>>)>>, "")

\* maybe_run with run_brew called as if with check=True: a non-zero exit
\* raises out of the task
maybe_run_checked(f, mode, desc, verb, allow_in_report, env) ==
    IF mode = MODE_REPORT /\ ~allow_in_report
    THEN Step(f, <<Entry("brew: report mode skip", desc, <<>>)>>, <<>>, "")
    ELSE IF mode = MODE_DRY_RUN
    THEN Step(f, <<Entry("brew: would run", desc, <<>>)>>, <<>>, "")
    ELSE Step(f, <<Entry("run", verb, <<>>)>>, <<Cmd("brew", verb, <<>>)>>,
              IF desc \in env.brewFails THEN "CalledProcessError" ELSE "")

\* maybe_run
maybe_run(f, mode, desc, verb, allow_in_report, env) ==
    IF mode = MODE_REPORT /\ ~allow_in_report
    THEN Step(f, <<Entry("brew: report mode skip", desc, <<>>)>>, <<>>, "")
    ELSE IF mode = MODE_DRY_RUN
    THEN Step(f, <<Entry("brew: would run", desc, <<>>)>>, <<>>, "")
    ELSE brew_run(f, desc, verb, env)

\* the list and cask-list steps written when the mode is apply only (a mutant)
brew_write_list_apply_only(f, mode, desc, verb, file, data, env) ==
    IF mode # MODE_APPLY
    THEN Step(f, <<Entry("brew: would write", desc, file)>>, <<>>, "")
    ELSE Step(WriteFile(f, file, data),
              <<Entry("run", verb, <<>>), Entry("brew: wrote", desc, file)>>,
              <<Cmd("brew", verb, <<>>)>>, "")

\* the list and cask-list steps: brew list [--cask] written to a file
brew_write_list(f, mode, desc, verb, file, data, env) ==
    IF mode = MODE_DRY_RUN
    THEN Step(f, <<Entry("brew: would write", desc, file)>>, <<>>, "")
    ELSE IF desc \in env.brewFails
    THEN Step(f, <<Entry("run", verb, <<>>), Entry("brew: failed", desc, <<>>)>>,
              <<Cmd("brew", verb, <<>>)>>, "")
    ELSE IF ~IsDir(f, Parent(file))
    THEN Step(f, <<Entry("run", verb, <<>>)>>, <<Cmd("brew", verb, <<>>)>>,
              "FileNotFoundError")
    ELSE Step(WriteFile(f, file, data),
              <<Entry("run", verb, <<>>), Entry("brew: wrote", desc, file)>>,
              <<Cmd("brew", verb, <<>>)>>, "")

\* the applications of fix_casks that brew lists and /Applications lacks
RECURSIVE MissingCasks(_, _, _)
MissingCasks(f, fix_casks, env) ==
    IF fix_casks = <<>> THEN <<>>
    ELSE LET app == Head(fix_casks)
         IN  (IF /\ Lower(app) \in env.installed
                 /\ ~Exists(f, Append(Applications, app \o AppSuffix))
              THEN <<CaskName(app)>> ELSE <<>>)
             \o MissingCasks(f, Tail(fix_casks), env)

\* the fix-missing-casks step
brew_fix_casks(f, mode, fix_casks, env) ==
    LET list == Cmd("brew", "list --cask", <<>>)
        ran == <<Entry("run", "list --cask", <<>>)>>
        missing_casks == MissingCasks(f, fix_casks, env)
    IN  IF "fix list" \in env.brewFails
        THEN Step(f, ran \o <<Entry("brew: could not list casks", "", <<>>)>>,
                  <<list>>, "return")
        ELSE IF missing_casks = <<>>
        THEN Step(f, ran \o <<Entry("brew: no missing cask apps", "", <<>>)>>,
                  <<list>>, "return")
        ELSE IF mode # MODE_APPLY
        THEN Step(f, ran \o <<Entry("brew: would reinstall", "", missing_casks)>>,
                  <<list>>, "return")
        ELSE Step(f,
                  ran \o <<Entry("brew: reinstalling", "", missing_casks),
                           Entry("run", "uninstall --cask", missing_casks),
                           Entry("run", "install --cask", missing_casks)>>,
                  <<list, Cmd("brew", "uninstall --cask", missing_casks),
                    Cmd("brew", "install --cask", missing_casks)>>, "")

BrewFlags ==
    {"update", "upgrade", "upgrade cask", "autoremove", "cleanup", "doctor",
     "missing", "untap", "list", "cask list", "fix casks"}

\* the steps of task_brew_maintenance in the order of the code
BrewOrder ==
    <<"update", "upgrade", "upgrade cask", "autoremove", "cleanup", "doctor",
      "missing", "untap", "list", "cask list", "fix casks">>

\* the flags after the report and dry-run default
EffectiveFlags(mode, flags) ==
    IF mode \in {MODE_REPORT, MODE_DRY_RUN} /\ flags = {}
    THEN {"doctor", "list", "cask list"} ELSE flags

\* the brew list output written to the list file
FormulaList == <<<<"f">>>>

brew_step(f, mode, desc, list_file, cask_file, fix_casks, env) ==
    CASE desc = "update" -> maybe_run(f, mode, desc, "update", FALSE, env)
      [] desc = "upgrade" -> maybe_run(f, mode, desc, "upgrade", FALSE, env)
      [] desc = "upgrade cask" ->
             maybe_run(f, mode, desc, "upgrade --cask --greedy", FALSE, env)
      [] desc = "autoremove" -> maybe_run(f, mode, desc, "autoremove", FALSE, env)
      [] desc = "cleanup" ->
             maybe_run(f, mode, desc, "cleanup --prune=7 --quiet", FALSE, env)
      [] desc = "doctor" -> maybe_run(f, mode, desc, "doctor", TRUE, env)
      [] desc = "missing" -> maybe_run(f, mode, desc, "missing", TRUE, env)
      [] desc = "untap" -> maybe_run(f, mode, desc, "untap --force", FALSE, env)
      [] desc = "list" ->
             brew_write_list(f, mode, desc, "list", list_file, FormulaList, env)
      [] desc = "cask list" ->
             brew_write_list(f, mode, desc, "list --cask", cask_file,
                             SetToSeq(env.installed), env)
      [] desc = "fix casks" -> brew_fix_casks(f, mode, fix_casks, env)

\* the if do_...: statements of task_brew_maintenance from position i on
RECURSIVE brew_steps(_, _, _, _, _, _, _, _)
brew_steps(f, mode, flags, i, list_file, cask_file, fix_casks, env) ==
    IF i > Len(BrewOrder) THEN Step(f, <<>>, <<>>, "")
    ELSE IF BrewOrder[i] \notin flags
    THEN brew_steps(f, mode, flags, i + 1, list_file, cask_file, fix_casks, env)
    ELSE LET one == brew_step(f, mode, BrewOrder[i], list_file, cask_file, fix_casks,
                              env)
             rest == brew_steps(one.fs, mode, flags, i + 1, list_file, cask_file,
                                fix_casks, env)
         IN  IF one.ended # "" THEN one
             ELSE Step(rest.fs, one.log \o rest.log, one.cmds \o rest.cmds, rest.ended)

task_brew_maintenance(f, mode, brew_bin, list_file_arg, cask_file_arg, flags, fix_casks, env) ==
    LET b == validate_brew_bin(brew_bin)
        l == validate_home_path(list_file_arg, Cwd)
        c == validate_home_path(cask_file_arg, Cwd)
        done == brew_steps(f, mode, EffectiveFlags(mode, flags), 1, l.value, c.value,
                           fix_casks, env)
    IN  IF b.status = "raised" THEN TaskRaised(b.exc, f, <<>>, <<>>)
        ELSE IF l.status = "raised" THEN TaskRaised(l.exc, f, <<>>, <<>>)
        ELSE IF c.status = "raised" THEN TaskRaised(c.exc, f, <<>>, <<>>)
        ELSE IF done.ended \notin {"", "return"}
        THEN TaskRaised(done.ended, done.fs, done.log, done.cmds)
        ELSE TaskReturned(done.fs, done.log, done.cmds)

(***************************************************************************)
(* The filesystems and the arguments the tasks are tried on.               *)
(***************************************************************************)
Abs(parts) == [anchor |-> "root", parts |-> parts]

Tilde(parts) == [anchor |-> "tilde", parts |-> parts]

ARCH == <<"a", "r", "c", "h">>

SUP == <<"s", "u", "p">>

CHR == <<"c", "h", "r">>

VOL == <<"v", "o", "l">>

SRC == <<"s", "r", "c">>

DST == <<"d", "s", "t">>

NODIR == <<"n", "o", "d", "i", "r">>

BREWLIST == <<".", "b", "r", "e", "w", "-", "l", "i", "s", "t", ".", "t", "x", "t">>

BREWCASK == <<".", "b", "r", "e", "w", "-", "c", "a", "s", "k", ".", "t", "x", "t">>

FolderA == <<"A">>

FolderAB == <<"A", " ", "B">>

FolderA_B == <<"A", "_", "B">>

PastArchive == <<"x", "_", "d", "e", "l", "e", "t", "e", "_", "2", "0", "2", "4", "-", "1", "2", "-", "3", "0", ".", "z", "i", "p">>

TodayArchive == <<"y", "_", "d", "e", "l", "e", "t", "e", "_", "2", "0", "2", "4", "-", "1", "2", "-", "3", "1", ".", "z", "i", "p">>

FutureArchive == <<"x", "_", "d", "e", "l", "e", "t", "e", "_", "2", "0", "2", "5", "-", "0", "1", "-", "0", "1", ".", "z", "i", "p">>

UntaggedArchive == <<"x", "_", "d", "e", "l", "e", "t", "e", "_", "s", "o", "o", "n", ".", "z", "i", "p">>

\* the directories given as --archive-dir, --app-support-dir and --chrome-dir:
\* in the home directory, in a sibling of it, and elsewhere
ArchiveDirs == {<<U, JO, ARCH>>, <<U, JOE, ARCH>>, <<ETC, ARCH>>}

SupportDirs == {<<U, JO, SUP>>, <<ETC, SUP>>}

ChromeDirs == {<<U, JO, CHR>>, <<U, JOE, CHR>>, <<ETC, CHR>>}

PlainFile == File(<<<<"x">>>>)

Tree(paths, value) == [q \in paths |-> value]

f1 ++ f2 == [q \in DOMAIN f1 \cup DOMAIN f2 |-> IF q \in DOMAIN f1 THEN f1[q] ELSE f2[q]]

BaseFs ==
    Tree({<<>>, <<U>>, <<U, JO>>, <<U, JOE>>, <<ETC>>, <<VOL>>, Applications,
          Append(Applications, Inkscape \o AppSuffix)}, Dir)

\* the directories that hold archives, and those that hold a browser profile tree
ArchiveHolders == {<<U, JO, ARCH>>, <<U, JOE, ARCH>>}

ChromeHolders == {<<U, JO, CHR>>, <<U, JOE, CHR>>}

Kept == <<"k", "e", "p", "t">>

\* each archive directory holds four archives and a folder with a past archive
ArchiveFs ==
    Tree(ArchiveHolders \cup {Append(d, Kept) : d \in ArchiveHolders}, Dir)
    ++ Tree({Append(d, n) : d \in ArchiveHolders,
             n \in {PastArchive, TodayArchive, FutureArchive, UntaggedArchive}}
            \cup {d \o <<Kept, PastArchive>> : d \in ArchiveHolders},
            PlainFile)

SupportFs(folders) ==
    Tree(SupportDirs \cup {Append(d, n) : d \in SupportDirs, n \in folders}, Dir)
    ++ Tree({d \o <<n, <<"f">>>> : d \in SupportDirs, n \in folders}, PlainFile)

ChromeEmptyFs == Tree(ChromeHolders, Dir)

GPUCache == CHROME_CLEAN_DIRS[5]

IndexedDB == CHROME_CLEAN_DIRS[2]

Profile1 == <<"P", "r", "o", "f", "i", "l", "e", " ", "1">>

OtherDir == <<"O", "t", "h", "e", "r">>

ChromeProfilesFs ==
    ChromeEmptyFs
    ++ Tree(UNION {{d \o <<DefaultProfile>>, d \o <<DefaultProfile, GPUCache>>,
                    d \o <<DefaultProfile, GPUCache, <<"d">>>>,
                    d \o <<Profile1>>, d \o <<Profile1, IndexedDB>>,
                    d \o <<OtherDir>>, d \o <<OtherDir, GPUCache>>} : d \in ChromeHolders},
            Dir)
    ++ Tree(UNION {{d \o <<DefaultProfile, GPUCache, <<"f">>>>,
                    d \o <<DefaultProfile, GPUCache, <<"d">>, <<"g">>>>,
                    d \o <<DefaultProfile, <<"b">>>>,
                    d \o <<Profile1, IndexedDB, <<"f">>>>,
                    d \o <<OtherDir, GPUCache, <<"f">>>>} : d \in ChromeHolders},
            PlainFile)

SourceFs == Tree({<<VOL, SRC>>}, Dir) ++ Tree({<<VOL, SRC, <<"v">>>>}, PlainFile)

EmptyFs == Tree({}, Dir)

FolderSets == {{}, {FolderA}, {FolderA, FolderAB, FolderA_B}}

\* the filesystem of a world
WorldFs(w) ==
    BaseFs ++ (IF w.archives THEN ArchiveFs ELSE EmptyFs) ++ SupportFs(w.folders)
    ++ (CASE w.chrome = "none" -> EmptyFs
          [] w.chrome = "empty" -> ChromeEmptyFs
          [] w.chrome = "profiles" -> ChromeProfilesFs)
    ++ (IF w.source THEN SourceFs ELSE EmptyFs)

\* the worlds a run starts in: the archive and support areas in every
\* combination with the rest present, and the chrome and source areas varied
\* with the rest present
Worlds ==
    [archives : BOOLEAN, folders : FolderSets, chrome : {"profiles"}, source : {TRUE}]
    \cup
    [archives : {TRUE}, folders : {{FolderA}}, chrome : {"none", "empty", "profiles"},
     source : BOOLEAN]

\* the filesystem when the task call began
before == WorldFs(world)

NoFailures ==
    [unlinkFails |-> {}, zipRaises |-> {}, zipFails |-> {}, rmtreeFails |-> {},
     chromeStops |-> "stopped", removeFails |-> {}, rsyncFails |-> FALSE,
     brewFails |-> {}, installed |-> {}]

DEFAULT_ORPHANS_LIMIT == 30

\* the command line: argparse's namespace with its defaults
DefaultArgs ==
    [mode |-> MODE_REPORT,
     task |-> <<>>,
     report_out_dir |-> Abs(Cwd),
     applications_dir |-> Abs(Applications),
     orphans_limit |-> DEFAULT_ORPHANS_LIMIT,
     app_support_dir |-> Abs(<<U, JO, SUP>>),
     archive_dir |-> Abs(<<U, JO, ARCH>>),
     archive_folder |-> <<>>,
     archive_days |-> 1,
     chrome_dir |-> Abs(<<U, JO, CHR>>),
     kill_chrome |-> FALSE,
     copy_src |-> Abs(<<VOL, SRC>>),
     copy_dst |-> Abs(<<VOL, DST>>),
     brew_bin |-> [absolute |-> TRUE, executable |-> TRUE],
     brew_list_file |-> Abs(<<U, JO, BREWLIST>>),
     brew_cask_file |-> Abs(<<U, JO, BREWCASK>>),
     brew_flags |-> {},
     brew_fix_cask |-> <<>>]

TaskOut(r) == [status |-> r.status, exc |-> r.exc, log |-> r.log, cmds |-> r.cmds]

Called(task, a, e, r) ==
    /\ tcall' = [task |-> task, args |-> a, env |-> e]
    /\ tout' = TaskOut(r)
    /\ fs' = r.fs
    /\ UNCHANGED <<world, pathVars, badgeVars, runVars, mainVars, reportVars, renderVars, envVars>>

ArchiveDirArgs == {Abs(d) : d \in ArchiveDirs}

TASK_CLEANUP_ARCHIVES == "cleanup-archives"

TASK_ARCHIVE_ORPHANS == "archive-orphans"

TASK_CHROME == "chrome-cleanup"

TASK_COPY == "copy-speed-test"

TASK_BREW == "brew-maintenance"

\* the failures of the environment matter in apply mode only
EnvFor(mode, envs) == IF mode = MODE_APPLY THEN envs ELSE {NoFailures}

CleanupArchives ==
    /\ tout.status = "none"
    /\ \E mode \in Modes, dir \in ArchiveDirArgs :
         \E e \in EnvFor(mode, {[NoFailures EXCEPT !.unlinkFails = x] :
                                   x \in SUBSET Candidates(fs, Resolve(ExpandUser(dir), Cwd))}) :
           LET a == [DefaultArgs EXCEPT !.mode = mode, !.archive_dir = dir]
           IN  Called(TASK_CLEANUP_ARCHIVES, a, e,
                      task_cleanup_archives(fs, a.archive_dir, a.mode, e))

Range(q) == {q[i] : i \in 1..Len(q)}

FolderLists == SeqsUpTo({FolderA, FolderAB, FolderA_B}, MaxFolders)

\* --archive-days is type=int: zero and negative values are accepted
ArchiveDays == {-1, 0, 1}

\* each folder of the list zips, fails to zip, makes zip raise, or cannot be removed
ArchiveEnvs(folders) ==
    {[NoFailures EXCEPT !.zipRaises = {n \in Range(folders) : o[n] = "raise"},
                        !.zipFails = {n \in Range(folders) : o[n] = "fail"},
                        !.rmtreeFails = {n \in Range(folders) : o[n] = "rmtree"}] :
        o \in [Range(folders) -> {"ok", "raise", "fail", "rmtree"}]}

ArchiveOrphans ==
    /\ tout.status = "none"
    /\ \E mode \in Modes, dir \in ArchiveDirArgs, sup \in SupportDirs,
          folders \in FolderLists, days \in ArchiveDays :
         \E e \in EnvFor(mode, ArchiveEnvs(folders)) :
           LET a == [DefaultArgs EXCEPT !.mode = mode, !.archive_dir = dir,
                                        !.app_support_dir = Abs(sup),
                                        !.archive_folder = folders, !.archive_days = days]
           IN  Called(TASK_ARCHIVE_ORPHANS, a, e,
                      task_archive_orphans(fs, a.app_support_dir, a.archive_dir,
                                           a.archive_folder, a.archive_days, a.mode, e))

\* what cannot be removed below the cache directories of dir
RemoveFailures(dir) ==
    {{}, {dir \o <<DefaultProfile, GPUCache, <<"f">>>>},
     {dir \o <<DefaultProfile, GPUCache, <<"d">>, <<"g">>>>}}

ChromeDirArgs == {Abs(d) : d \in ChromeDirs} \cup {Tilde(<<CHR>>)}

ChromeCleanup ==
    /\ tout.status = "none"
    /\ \E mode \in Modes, dir \in ChromeDirArgs, kill_chrome \in BOOLEAN,
          stops \in {"stopped", "quit", "term", "kill", "never"} :
         \E e \in EnvFor(mode, {[NoFailures EXCEPT !.removeFails = x] :
                                   x \in RemoveFailures(Resolve(ExpandUser(dir), Cwd))}) :
           LET a == [DefaultArgs EXCEPT !.mode = mode, !.chrome_dir = dir,
                                        !.kill_chrome = kill_chrome]
               env == [e EXCEPT !.chromeStops = stops]
           IN  Called(TASK_CHROME, a, env,
                      task_chrome_cleanup(fs, a.chrome_dir, a.mode, a.kill_chrome, env))

CopyDsts == {<<U, JO, DST>>, <<VOL, DST>>, <<VOL>>, <<NODIR, DST>>}

CopySpeedTest ==
    /\ tout.status = "none"
    /\ \E mode \in Modes, dst \in CopyDsts :
         \E e \in EnvFor(mode, {[NoFailures EXCEPT !.rsyncFails = x] : x \in BOOLEAN}) :
           LET a == [DefaultArgs EXCEPT !.mode = mode, !.copy_dst = Abs(dst)]
           IN  Called(TASK_COPY, a, e,
                      task_copy_speed_test(fs, a.copy_src, a.copy_dst, a.mode, e))

BrewBins == [absolute : BOOLEAN, executable : BOOLEAN]

BrewFiles(name) == {Abs(<<U, JO, name>>), Abs(<<ETC, name>>), Abs(<<U, JO, NODIR, name>>)}

FlagSets == {x \in SUBSET BrewFlags : Cardinality(x) <= MaxFlags} \cup {BrewFlags}

CaskLists == {<<>>, <<JupyterLab, Inkscape>>}

\* at most one brew command fails, and brew lists no cask, or the two casks
BrewEnvs(mode, flags) ==
    {[NoFailures EXCEPT !.brewFails = x, !.installed = y] :
        x \in {{}} \cup {{d} : d \in EffectiveFlags(mode, flags)}
                   \cup {{"fix list"} : d \in flags \cap {"fix casks"}},
        y \in IF flags \cap {"fix casks", "cask list"} = {} THEN {{}}
              ELSE {{}, {Lower(Inkscape), Lower(JupyterLab)}}}

\* the arguments of the brew task: the validated ones in every combination
\* with the list step alone, and the action flags with valid paths
BrewArgs ==
    {[DefaultArgs EXCEPT !.mode = m, !.brew_bin = b, !.brew_list_file = l,
                         !.brew_cask_file = c, !.brew_flags = {"list"}] :
        m \in Modes, b \in BrewBins, l \in BrewFiles(BREWLIST), c \in BrewFiles(BREWCASK)}
    \cup
    {[DefaultArgs EXCEPT !.mode = m, !.brew_flags = x, !.brew_fix_cask = k] :
        m \in Modes, x \in FlagSets,
        k \in CaskLists}
    \cup
    {[DefaultArgs EXCEPT !.mode = m, !.brew_list_file = l,
                         !.brew_flags = {"list", "cask list", "fix casks"}] :
        m \in Modes, l \in BrewFiles(BREWLIST)}

\* fix_list = args.brew_fix_cask or DEFAULT_MISSING_CASK_APPS
FixList(a) == IF a.brew_fix_cask = <<>> THEN DEFAULT_MISSING_CASK_APPS ELSE a.brew_fix_cask

BrewMaintenance ==
    /\ tout.status = "none"
    /\ \E a \in BrewArgs :
         \E e \in BrewEnvs(a.mode, a.brew_flags) :
           Called(TASK_BREW, a, e,
                  task_brew_maintenance(fs, a.mode, a.brew_bin, a.brew_list_file,
                                        a.brew_cask_file, a.brew_flags, FixList(a), e))


InitTask ==
    /\ world \in Worlds
    /\ fs = WorldFs(world)
    /\ tcall = [task |-> "none"]
    /\ tout = [status |-> "none"]
    /\ IdlePath
    /\ IdleBadgeVars
    /\ IdleRun
    /\ IdleMain
    /\ IdleReport
    /\ IdleRender
    /\ IdleEnv

NextTask ==
    \/ CleanupArchives
    \/ ArchiveOrphans
    \/ ChromeCleanup
    \/ CopySpeedTest
    \/ BrewMaintenance

SpecTask == InitTask /\ [][NextTask]_vars

(***************************************************************************)
(* find-orphans and the report, as main calls them.                        *)
(***************************************************************************)
\* a character of a pattern that stands for any character but a line end
ANY == "ANY"

DEFAULT_ARCHIVE_FOLDERS ==
    <<<<"3", "6", "0", "W", "o", "r", "k", "s">>,
      <<"A", "m", "a", "z", "o", "n", " ", "C", "l", "o", "u", "d", " ", "D", "r", "i", "v", "e">>,
      <<"A", "l", "f", "r", "e", "d", " ", "2">>,
      <<"a", "n", "y", "t", "h", "i", "n", "g", "l", "l", "m", "-", "d", "e", "s", "k", "t", "o", "p">>,
      <<"A", "I", "R", " ", "M", "u", "s", "i", "c", " ", "T", "e", "c", "h", "n", "o", "l", "o", "g", "y">>,
      <<"A", "b", "l", "e", "t", "o", "n">>, <<"B", "a", "c", "k", "u", "p">>,
      <<"A", "I", "M">>, <<"A", "p", "p", "f", "l", "u", "e", "n", "c", "e">>,
      <<"a", "m", "a", "z", "o", "n", "-", "q">>>>

\* a compiled pattern (alt|alt|...), with or without a final $; match() always
\* starts at the beginning of the name
Pattern(alternatives, to_end) == [alternatives |-> alternatives, to_end |-> to_end]

\* the alternatives of ^(...)$ in DEFAULT_ORPHANS_SKIP_RE
DefaultSkipAlternatives ==
    {<<"c", "o", "m", "\\", ANY, "a", "p", "p", "l", "e", "\\", ANY>>,
     <<"A", "d", "d", "r", "e", "s", "s", "B", "o", "o", "k">>,
     <<"C", "a", "l", "l", "H", "i", "s", "t", "o", "r", "y", "D", "B">>,
     <<"C", "a", "l", "l", "H", "i", "s", "t", "o", "r", "y", "T", "r", "a", "n", "s", "a", "c", "t", "i", "o", "n", "s">>,
     <<"C", "l", "o", "u", "d", "D", "o", "c", "s">>,
     <<"C", "r", "a", "s", "h", "R", "e", "p", "o", "r", "t", "e", "r">>,
     <<"F", "i", "l", "e", "P", "r", "o", "v", "i", "d", "e", "r">>,
     <<"K", "n", "o", "w", "l", "e", "d", "g", "e">>,
     <<"S", "y", "n", "c", "S", "e", "r", "v", "i", "c", "e", "s">>,
     <<"n", "e", "t", "w", "o", "r", "k", "s", "e", "r", "v", "i", "c", "e", "p", "r", "o", "x", "y">>,
     <<"i", "c", "d", "d">>,
     <<"d", "e", "f", "a", "u", "l", "t", "\\", ANY, "s", "t", "o", "r", "e">>,
     <<"C", "a", "c", "h", "e", "s">>, <<"L", "o", "g", "s">>,
     <<"M", "o", "b", "i", "l", "e", "S", "y", "n", "c">>,
     <<"N", "o", "t", "i", "f", "i", "c", "a", "t", "i", "o", "n", "C", "e", "n", "t", "e", "r">>,
     <<"S", "y", "s", "t", "e", "m", " ", "P", "r", "e", "f", "e", "r", "e", "n", "c", "e", "s">>,
     <<"A", "u", "t", "o", "m", "a", "t", "o", "r">>, <<"D", "o", "c", "k">>,
     <<"C", "o", "n", "t", "r", "o", "l", "C", "e", "n", "t", "e", "r">>,
     <<"F", "a", "c", "e", "T", "i", "m", "e">>, <<"M", "a", "i", "l">>,
     <<"M", "u", "s", "i", "c">>, <<"i", "C", "l", "o", "u", "d">>,
     <<"i", "d", "e", "n", "t", "i", "t", "y", "s", "e", "r", "v", "i", "c", "e", "s", "d">>,
     <<"l", "o", "c", "a", "t", "i", "o", "n", "a", "c", "c", "e", "s", "s", "s", "t", "o", "r", "e", "d">>,
     <<"c", "o", "n", "t", "a", "c", "t", "s", "d">>,
     <<"a", "c", "c", "o", "u", "n", "t", "s", "d">>,
     <<"a", "p", "p", "p", "l", "a", "c", "e", "h", "o", "l", "d", "e", "r", "s", "y", "n", "c", "d">>,
     <<"h", "o", "m", "e", "e", "n", "e", "r", "g", "y", "d">>,
     <<"p", "r", "i", "v", "a", "t", "e", "c", "l", "o", "u", "d", "c", "o", "m", "p", "u", "t", "e", "d">>,
     <<"s", "y", "n", "c", "d", "e", "f", "a", "u", "l", "t", "s", "d">>,
     <<"t", "r", "a", "n", "s", "p", "a", "r", "e", "n", "c", "y", "d">>,
     <<"T", "r", "u", "s", "t", "e", "d", "P", "e", "r", "s", "H", "e", "l", "p", "e", "r">>,
     <<"v", "i", "d", "e", "o", "s", "u", "b", "s", "c", "r", "i", "p", "t", "i", "o", "n", "s", "d">>,
     <<"s", "t", "i", "c", "k", "e", "r", "s", "d">>,
     <<"t", "i", "p", "s", "d">>,
     <<"D", "i", "f", "f", "e", "r", "e", "n", "t", "i", "a", "l", "P", "r", "i", "v", "a", "c", "y">>,
     <<"A", "n", "i", "m", "o", "j", "i">>}

DEFAULT_ORPHANS_SKIP_RE == Pattern(DefaultSkipAlternatives, TRUE)

\* the grave accent
BACKTICK == "BACKTICK"

\* the printable characters, in code point order from 32
Ascii ==
    <<" ", "!", "\"", "#", "$", "%", "&", "'", "(", ")", "*", "+", ",", "-",
      ".", "/", "0", "1", "2", "3", "4", "5", "6", "7", "8", "9", ":", ";",
      "<", "=", ">", "?", "@", "A", "B", "C", "D", "E", "F", "G", "H", "I",
      "J", "K", "L", "M", "N", "O", "P", "Q", "R", "S", "T", "U", "V", "W",
      "X", "Y", "Z", "[", "\\", "]", "^", "_", BACKTICK, "a", "b", "c", "d", "e",
      "f", "g", "h", "i", "j", "k", "l", "m", "n", "o", "p", "q", "r", "s",
      "t", "u", "v", "w", "x", "y", "z", "{", "|", "}", "~">>

\* ord(c) of a printable character
Ord(c) == 31 + (CHOOSE i \in 1..Len(Ascii) : Ascii[i] = c)

\* a <= b on strings, by code points
RECURSIVE TextLeq(_, _)
TextLeq(a, b) ==
    IF a = <<>> THEN TRUE
    ELSE IF b = <<>> THEN FALSE
    ELSE IF Head(a) = Head(b) THEN TextLeq(Tail(a), Tail(b))
    ELSE Ord(Head(a)) < Ord(Head(b))

\* sorted(names)
RECURSIVE Sorted(_)
Sorted(names) ==
    IF names = {} THEN <<>>
    ELSE LET first == CHOOSE x \in names : \A y \in names : TextLeq(x, y)
         IN  <<first>> \o Sorted(names \ {first})

\* the alternative matches the text from its first character on
MatchesAt(alt, text) ==
    /\ Len(alt) <= Len(text)
    /\ \A i \in 1..Len(alt) : IF alt[i] = ANY THEN text[i] # LF ELSE text[i] = alt[i]

\* skip_re.match(name): some alternative matches a prefix of the name, and
\* with a final $ the whole name, or the name up to a final line end
ReMatch(re, name) ==
    \E alt \in re.alternatives :
        /\ MatchesAt(alt, name)
        /\ re.to_end =>
              \/ Len(alt) = Len(name)
              \/ Len(alt) = Len(name) - 1 /\ name[Len(name)] = LF

\* task_find_orphans matching a folder only when an application name contains
\* it (a mutant)
task_find_orphans_one_way(f, app_support_dir_arg, applications_dir_arg, limit, skip_re) ==
    LET app_support_dir == Resolve(ExpandUser(app_support_dir_arg), Cwd)
        applications_dir == Resolve(ExpandUser(applications_dir_arg), Cwd)
        installed_apps ==
            {Lower(SubSeq(Name(q), 1, Len(Name(q)) - Len(AppSuffix))) :
                q \in {c \in Children(f, applications_dir) : EndsWith(Name(c), AppSuffix)}}
        support_dirs ==
            Sorted({Name(q) : q \in {c \in Children(f, app_support_dir) : IsDir(f, c)}})
        NotFound(support_dir) ==
            /\ ~ReMatch(skip_re, support_dir)
            /\ \A app \in installed_apps :
                  ~Contains(app, Lower(support_dir))
        orphans == SelectSeq(support_dirs, NotFound)
        shown == Slice(orphans, limit)
    IN  IF ~IsDir(f, app_support_dir)
        THEN TaskReturned(f, <<Entry("Application Support not found", "", app_support_dir)>>,
                          <<>>)
        ELSE IF ~IsDir(f, applications_dir)
        THEN TaskReturned(f, <<Entry("failed to list /Applications", "", applications_dir)>>,
                          <<>>)
        ELSE TaskReturned(f,
                 <<Entry("found potential orphaned folders", "", orphans)>>
                 \o [i \in 1..Len(shown) |-> Entry("orphan", "", Append(app_support_dir, shown[i]))],
                 [i \in 1..Len(shown) |-> Cmd("du", "-sk", Append(app_support_dir, shown[i]))])

task_find_orphans(f, app_support_dir_arg, applications_dir_arg, limit, skip_re) ==
    LET app_support_dir == Resolve(ExpandUser(app_support_dir_arg), Cwd)
        applications_dir == Resolve(ExpandUser(applications_dir_arg), Cwd)
        installed_apps ==
            {Lower(SubSeq(Name(q), 1, Len(Name(q)) - Len(AppSuffix))) :
                q \in {c \in Children(f, applications_dir) : EndsWith(Name(c), AppSuffix)}}
        support_dirs ==
            Sorted({Name(q) : q \in {c \in Children(f, app_support_dir) : IsDir(f, c)}})
        NotFound(support_dir) ==
            /\ ~ReMatch(skip_re, support_dir)
            /\ \A app \in installed_apps :
                  ~(Contains(app, Lower(support_dir)) \/ Contains(Lower(support_dir), app))
        orphans == SelectSeq(support_dirs, NotFound)
        shown == Slice(orphans, limit)
    IN  IF ~IsDir(f, app_support_dir)
        THEN TaskReturned(f, <<Entry("Application Support not found", "", app_support_dir)>>,
                          <<>>)
        ELSE IF ~IsDir(f, applications_dir)
        THEN TaskReturned(f, <<Entry("failed to list /Applications", "", applications_dir)>>,
                          <<>>)
        ELSE TaskReturned(f,
                 <<Entry("found potential orphaned folders", "", orphans)>>
                 \o [i \in 1..Len(shown) |-> Entry("orphan", "", Append(app_support_dir, shown[i]))],
                 [i \in 1..Len(shown) |-> Cmd("du", "-sk", Append(app_support_dir, shown[i]))])

\* now.strftime("%Y%m%d_%H%M%S") at the start of today
Stamp == <<"2", "0", "2", "4", "1", "2", "3", "1", "_", "0", "0", "0", "0", "0", "0">>

ReportStem ==
    <<"m", "a", "c", "_", "m", "a", "i", "n", "t", "e", "n", "a", "n", "c", "e", "_",
      "r", "e", "p", "o", "r", "t", "_">> \o Stamp

HtmlSuffix == <<".", "h", "t", "m", "l">>

CssSuffix == <<".", "c", "s", "s">>

\* generate_report, for what it does to the filesystem: the output directory
\* is made and the stylesheet and the page are written; the checks it runs
\* in between read the system and write no file
generate_report(f, out_dir_arg) ==
    LET out_dir == Resolve(out_dir_arg, Cwd)
        made == Mkdirs(f, out_dir)
        html_path == Append(out_dir, ReportStem \o HtmlSuffix)
        css_path == Append(out_dir, ReportStem \o CssSuffix)
    IN  IF \E q \in Prefixes(out_dir) : Exists(f, q) /\ ~IsDir(f, q)
        THEN TaskRaised("FileExistsError", f, <<>>, <<>>)
        ELSE TaskReturned(WriteFile(WriteFile(made, css_path, <<CssSuffix>>), html_path,
                                    <<Name(css_path)>>),
                          <<Entry("Report written", "", html_path),
                            Entry("Stylesheet", "", css_path)>>, <<>>)

(***************************************************************************)
(* main: the selected tasks are run one after the other, each block "if   *)
(* TASK in tasks:" being one step.  An exception that a task raises is     *)
(* caught nowhere: it leaves main, and the interpreter ends the process    *)
(* with a traceback and exit status 1.                                     *)
(***************************************************************************)
TASK_REPORT == "report-html"

TASK_FIND_ORPHANS == "find-orphans"

TaskOrder ==
    <<TASK_REPORT, TASK_BREW, TASK_FIND_ORPHANS, TASK_ARCHIVE_ORPHANS,
      TASK_CLEANUP_ARCHIVES, TASK_CHROME, TASK_COPY>>

\* the statement of main after the block of TaskOrder[i]
After(i) == IF i < Len(TaskOrder) THEN TaskOrder[i + 1] ELSE "return"

UncaughtExit == Some(1)

\* args = parse_args() ... if not tasks: ...
MainStart ==
    /\ pc = "start"
    /\ IF margs.task # <<>>
       THEN /\ tasks' = margs.task
            /\ pc' = TaskOrder[1]
            /\ UNCHANGED <<mlog, exit_code>>
       ELSE IF margs.mode = MODE_REPORT
       THEN /\ tasks' = <<TASK_REPORT>>
            /\ pc' = TaskOrder[1]
            /\ UNCHANGED <<mlog, exit_code>>
       ELSE /\ tasks' = <<>>
            /\ mlog' = Append(mlog, Entry("No tasks selected", "", <<>>))
            /\ exit_code' = Some(2)
            /\ pc' = "exit"
    /\ UNCHANGED <<margs, menv, executed, world, fs, tcall, tout,
                   pathVars, badgeVars, runVars, reportVars, renderVars, envVars>>

\* if TaskOrder[i] in tasks: r = the call of the task
MainBlock(i, r) ==
    /\ pc = TaskOrder[i]
    /\ IF TaskOrder[i] \notin Range(tasks)
       THEN /\ pc' = After(i)
            /\ UNCHANGED <<fs, executed, exit_code>>
       ELSE /\ executed' = Append(executed, [task |-> TaskOrder[i], status |-> r.status,
                                             exc |-> r.exc])
            /\ fs' = r.fs
            /\ IF r.status = "raised"
               THEN pc' = "exit" /\ exit_code' = UncaughtExit
               ELSE pc' = After(i) /\ UNCHANGED exit_code
    /\ UNCHANGED <<margs, menv, tasks, mlog, world, tcall, tout,
                   pathVars, badgeVars, runVars, reportVars, renderVars, envVars>>

MainReport == MainBlock(1, generate_report(fs, margs.report_out_dir))

MainBrew ==
    MainBlock(2, task_brew_maintenance(fs, margs.mode, margs.brew_bin, margs.brew_list_file,
                                       margs.brew_cask_file, margs.brew_flags,
                                       FixList(margs), menv))

MainFindOrphans ==
    MainBlock(3, task_find_orphans(fs, margs.app_support_dir, margs.applications_dir,
                                   margs.orphans_limit, DEFAULT_ORPHANS_SKIP_RE))

\* folders = args.archive_folder or DEFAULT_ARCHIVE_FOLDERS
Folders(a) == IF a.archive_folder = <<>> THEN DEFAULT_ARCHIVE_FOLDERS ELSE a.archive_folder

MainArchiveOrphans ==
    MainBlock(4, task_archive_orphans(fs, margs.app_support_dir, margs.archive_dir,
                                      Folders(margs), margs.archive_days, margs.mode, menv))

MainCleanupArchives ==
    MainBlock(5, task_cleanup_archives(fs, margs.archive_dir, margs.mode, menv))

MainChrome ==
    MainBlock(6, task_chrome_cleanup(fs, margs.chrome_dir, margs.mode, margs.kill_chrome,
                                     menv))

MainCopy ==
    MainBlock(7, task_copy_speed_test(fs, margs.copy_src, margs.copy_dst, margs.mode, menv))

\* return 0
MainReturn ==
    /\ pc = "return"
    /\ exit_code' = Some(0)
    /\ pc' = "exit"
    /\ UNCHANGED <<margs, menv, tasks, mlog, executed, world, fs, tcall, tout,
                   pathVars, badgeVars, runVars, reportVars, renderVars, envVars>>

\* the --task options: none, one or two tasks in any order, a task given
\* twice, and all of them in the reverse of the order main runs them in
TaskLists ==
    SeqsUpTo(Range(TaskOrder), MaxTasks)
    \cup {[i \in 1..Len(TaskOrder) |-> TaskOrder[Len(TaskOrder) + 1 - i]]}

\* the command lines: the defaults, and one argument that its task rejects
\* or that lies outside the home directory
MainArgs ==
    {[a EXCEPT !.mode = m, !.task = t] :
        m \in Modes, t \in TaskLists,
        a \in {DefaultArgs,
               [DefaultArgs EXCEPT !.archive_dir = Abs(<<ETC, ARCH>>)],
               [DefaultArgs EXCEPT !.archive_folder = <<FolderA>>],
               [DefaultArgs EXCEPT !.chrome_dir = Abs(<<ETC, CHR>>)],
               [DefaultArgs EXCEPT !.brew_bin = [absolute |-> FALSE, executable |-> TRUE]]}}

Init ==
    /\ margs \in MainArgs
    /\ menv = NoFailures
    /\ tasks = <<>>
    /\ pc = "start"
    /\ executed = <<>>
    /\ exit_code = None
    /\ mlog = <<>>
    /\ world = [archives |-> TRUE, folders |-> {FolderA}, chrome |-> "profiles",
                source |-> TRUE]
    /\ fs = WorldFs(world)
    /\ tcall = [task |-> "none"]
    /\ tout = [status |-> "none"]
    /\ IdlePath
    /\ IdleBadgeVars
    /\ IdleRun
    /\ IdleReport
    /\ IdleRender
    /\ IdleEnv

Next ==
    \/ MainStart
    \/ MainReport
    \/ MainBrew
    \/ MainFindOrphans
    \/ MainArchiveOrphans
    \/ MainCleanupArchives
    \/ MainChrome
    \/ MainCopy
    \/ MainReturn

Spec == Init /\ [][Next]_vars

(***************************************************************************)
(* generate_report: the checks it runs, one after the other.               *)
(***************************************************************************)
UsePrefix == <<"U", "s", "e", " ", "-", "-", "i", "n", "c", "l", "u", "d", "e", "-">>

\* "Use --include-profiler" and the like, by the option's name
Use(option) ==
    UsePrefix \o (CASE option = "include_profiler" -> <<"p", "r", "o", "f", "i", "l", "e", "r">>
                   [] option = "include_heavy" -> <<"h", "e", "a", "v", "y">>
                   [] option = "include_network" -> <<"n", "e", "t", "w", "o", "r", "k">>
                   [] option = "include_logs" -> <<"l", "o", "g", "s">>)

NotInstalled == <<"N", "o", "t", " ", "i", "n", "s", "t", "a", "l", "l", "e", "d">>

\* skip_reason="" if include else reason
Unless(include, reason) == IF include THEN <<>> ELSE reason

\* a call of do(title, command, skip_reason=...)
Check(title, skip_reason) == [title |-> title, kind |-> "do", skip_reason |-> skip_reason]

\* a call of hardware_quick_summary_result or login_items_quick_result
Quick(title) == [title |-> title, kind |-> "quick", skip_reason |-> <<>>]

\* the checks of generate_report in the order of its text
CheckList(o) ==
    <<Check("Kernel and architecture", <<>>),
      Check("macOS version", <<>>),
      Check("Uptime", <<>>),
      Quick("Hardware quick summary"),
      Check("Hardware summary (detailed; system_profiler)", Unless(o.include_profiler, Use("include_profiler"))),
      Check("Software summary (detailed; system_profiler)", Unless(o.include_profiler, Use("include_profiler"))),
      Check("Filesystem free space", <<>>),
      Check("Largest directories in home (top 30)", Unless(o.include_heavy, Use("include_heavy"))),
      Check("Large files in home (>1GiB, first 200)", Unless(o.include_heavy, Use("include_heavy"))),
      Check("Trash size", <<>>)>>
    \o (IF o.has_brew
        THEN <<Check("Brew path", <<>>),
               Check("Brew version", <<>>),
               Check("Brew config", <<>>),
               Check("Outdated formulae/casks (may be inaccurate without brew update)", <<>>),
               Check("brew update (network)", Unless(o.include_network, Use("include_network")))>>
        ELSE <<Check("Homebrew not found", NotInstalled)>>)
    \o <<Check("Available macOS updates (network)", Unless(o.include_network, Use("include_network"))),
      Quick("Login items (ServiceManagement)"),
      Check("User LaunchAgents", <<>>),
      Check("System LaunchAgents", <<>>),
      Check("System LaunchDaemons", <<>>),
      Check("Loaded launchd jobs (first 60)", <<>>),
      Check("FileVault status", <<>>),
      Check("Gatekeeper status", <<>>),
      Check("Firewall status (0=off,1=on,2=on+stealth)", <<>>),
      Check("Quarantine events (last 7 days, first 50)", Unless(o.include_logs, Use("include_logs"))),
      Check("Time Machine status", <<>>),
      Check("Time Machine destinations", <<>>),
      Check("Most recent backups (first 30)", <<>>),
      Check("Battery summary", <<>>),
      Check("Power details (system_profiler)", Unless(o.include_profiler, Use("include_profiler"))),
      Check("Recent system errors (last 1h, tail 200)", Unless(o.include_logs, Use("include_logs")))>>

\* do: skip_reason or None, and the limits of the report
do(c, o) ==
    run_command([skip_reason |-> IF c.skip_reason = <<>> THEN None ELSE Some(c.skip_reason),
                 max_chars |-> DEFAULT_MAX_CHARS, max_lines |-> DEFAULT_MAX_LINES,
                 outcome |-> o])

\* hardware_quick_summary_result and login_items_quick_result: every exception
\* of their commands is caught; the text they assemble from the output is
\* taken to be the output
quick_result(o) ==
    IF o.kind = "exit"
    THEN Returned(CommandResult(
             o.elapsed, Some(o.returncode),
             Captured(o.stdout.text, DEFAULT_MAX_CHARS, DEFAULT_MAX_LINES, OutputTruncatedNote),
             Captured(o.stderr.text, DEFAULT_MAX_CHARS, DEFAULT_MAX_LINES, StderrTruncatedNote),
             None))
    ELSE IF o.kind = "timeout"
    THEN Returned(CommandResult(0, None, TimedOutNote, <<>>, None))
    ELSE Returned(CommandResult(0, None, <<>>, ExceptionTag \o OSErrorText, None))

Str(text) == [type |-> "str", text |-> text]

Bytes(text) == [type |-> "bytes", text |-> text]

\* a command that succeeds
OkOutcome ==
    [kind |-> "exit", returncode |-> 0, elapsed |-> 1, stdout |-> Str(<<"a">>),
     stderr |-> Str(<<>>)]

\* a command that exits non-zero, one that times out having written nothing,
\* one that times out with output already read, and one that cannot start
FailedOutcomes ==
    {[kind |-> "exit", returncode |-> 1, elapsed |-> 1, stdout |-> Str(<<>>),
      stderr |-> Str(<<"a">>)],
     [kind |-> "timeout", returncode |-> 0, elapsed |-> 2, stdout |-> NoStream,
      stderr |-> NoStream],
     [kind |-> "timeout", returncode |-> 0, elapsed |-> 2, stdout |-> Bytes(<<"a">>),
      stderr |-> NoStream],
     [kind |-> "error", returncode |-> 0, elapsed |-> 1, stdout |-> NoStream,
      stderr |-> NoStream]}

\* the checks so far whose command did not succeed
Failures == Cardinality({i \in 1..Len(results) : results[i].outcome # OkOutcome})

ReportOptions ==
    {[include_network |-> n, include_heavy |-> n, include_profiler |-> q,
      include_logs |-> q, has_brew |-> b] :
        n \in BOOLEAN, q \in BOOLEAN, b \in BOOLEAN}

\* html.escape(s), quote=True
EscapeChar(c) ==
    CASE c = "&" -> <<"&", "a", "m", "p", ";">>
      [] c = "<" -> <<"&", "l", "t", ";">>
      [] c = ">" -> <<"&", "g", "t", ";">>
      [] c = "\"" -> <<"&", "q", "u", "o", "t", ";">>
      [] c = "'" -> <<"&", "#", "x", "2", "7", ";">>
      [] OTHER -> <<c>>

\* the text as written, with no character replaced (a mutant)
html_escape_nothing(text) == text

html_escape(text) == Flatten([i \in 1..Len(text) |-> EscapeChar(text[i])])

\* the directory given as out_dir
ReportDir == <<U, JO, <<"o", "u", "t">>>>

OldReport == <<"o", "l", "d", ".", "h", "t", "m", "l">>

\* what the output directory is when generate_report is called: an empty
\* directory, missing, a plain file, a directory in which the page's name is
\* taken by a directory, and a directory with an older report and a page of
\* the same name
ReportWorlds == {"empty", "missing", "blocked", "page is a directory", "stale"}

ReportFs(w) ==
    Tree({<<>>, <<U>>, <<U, JO>>}, Dir)
    ++ (CASE w = "empty" -> Tree({ReportDir}, Dir)
          [] w = "missing" -> EmptyFs
          [] w = "blocked" -> Tree({ReportDir}, PlainFile)
          [] w = "page is a directory" ->
                Tree({ReportDir, Append(ReportDir, ReportStem \o HtmlSuffix)}, Dir)
          [] w = "stale" ->
                Tree({ReportDir}, Dir)
                ++ Tree({Append(ReportDir, OldReport),
                         Append(ReportDir, ReportStem \o HtmlSuffix)}, PlainFile))

\* the head of a page that links no stylesheet (a mutant)
PageHeadNoLink(css_name) ==
    JoinLines(<<<<"<", "!", "d", "o", "c", "t", "y", "p", "e", " ", "h", "t", "m", "l", ">">>, <<"<", "h", "e", "a", "d", ">">>, <<"<", "/", "h", "e", "a", "d", ">">>>>)

\* the page from <!doctype html> to </head>
PageHead(css_name) ==
    JoinLines(
        <<<<"<", "!", "d", "o", "c", "t", "y", "p", "e", " ", "h", "t", "m", "l", ">">>,
          <<"<", "h", "t", "m", "l", " ", "l", "a", "n", "g", "=", "\"", "e", "n", "\"", ">">>,
          <<"<", "h", "e", "a", "d", ">">>,
          <<" ", " ", "<", "m", "e", "t", "a", " ", "c", "h", "a", "r", "s", "e", "t", "=", "\"", "u", "t", "f", "-", "8", "\"", " ", "/", ">">>,
          <<" ", " ", "<", "m", "e", "t", "a", " ", "n", "a", "m", "e", "=", "\"", "v", "i", "e", "w", "p", "o", "r", "t", "\"", " ", "c", "o", "n", "t", "e", "n", "t", "=", "\"", "w", "i", "d", "t", "h", "=", "d", "e", "v", "i", "c", "e", "-", "w", "i", "d", "t", "h", ",", " ", "i", "n", "i", "t", "i", "a", "l", "-", "s", "c", "a", "l", "e", "=", "1", "\"", " ", "/", ">">>,
          <<" ", " ", "<", "t", "i", "t", "l", "e", ">">> \o html_escape(<<"m", "a", "c", "O", "S", " ", "M", "a", "i", "n", "t", "e", "n", "a", "n", "c", "e", " ", "R", "e", "p", "o", "r", "t">>) \o <<"<", "/", "t", "i", "t", "l", "e", ">">>,
          <<" ", " ", "<", "l", "i", "n", "k", " ", "r", "e", "l", "=", "\"", "s", "t", "y", "l", "e", "s", "h", "e", "e", "t", "\"", " ", "h", "r", "e", "f", "=", "\"">> \o html_escape(css_name) \o <<"\"", " ", "/", ">">>,
          <<"<", "/", "h", "e", "a", "d", ">">>>>)

\* the page, as its head and the titles of the checks its body shows
Page(css_name, rs) == <<PageHead(css_name), [i \in 1..Len(rs) |-> rs[i].title]>>

\* the options in every combination in an empty output directory, and one
\* combination in each of the other output directories
InitReport ==
    /\ \/ ropts \in ReportOptions /\ world = "empty"
       \/ /\ ropts = [include_network |-> FALSE, include_heavy |-> FALSE,
                      include_profiler |-> FALSE, include_logs |-> FALSE, has_brew |-> FALSE]
          /\ world \in ReportWorlds
    /\ fs = ReportFs(world)
    /\ tcall = [task |-> "none"]
    /\ tout = [status |-> "none"]
    /\ rpos = 1
    /\ results = <<>>
    /\ rstate = "start"
    /\ rret = NotCalled
    /\ IdlePath
    /\ IdleBadgeVars
    /\ IdleRun
    /\ IdleMain
    /\ IdleRender
    /\ IdleEnv

\* out_dir.mkdir(parents=True, exist_ok=True)
ReportMkdir ==
    /\ rstate = "start"
    /\ IF \E p \in Prefixes(ReportDir) : Exists(fs, p) /\ ~IsDir(fs, p)
       THEN rstate' = "mkdir raised" /\ rret' = Raised("FileExistsError") /\ UNCHANGED fs
       ELSE rstate' = "checking" /\ fs' = Mkdirs(fs, ReportDir) /\ UNCHANGED rret
    /\ UNCHANGED <<ropts, rpos, results, world, tcall, tout, pathVars, badgeVars, runVars,
                   mainVars, renderVars, envVars>>

\* the next call in the list of checks; an exception that leaves the call
\* leaves generate_report
ReportCheck ==
    /\ rstate = "checking"
    /\ rpos <= Len(CheckList(ropts))
    /\ \E o \in {OkOutcome} \cup (IF Failures < MaxFailures /\ CheckList(ropts)[rpos].skip_reason = <<>>
                                  THEN FailedOutcomes ELSE {}) :
         LET c == CheckList(ropts)[rpos]
             r == IF c.kind = "do" THEN do(c, o) ELSE quick_result(o)
         IN  /\ spawned' = spawned + (IF c.kind = "do" /\ c.skip_reason = <<>> THEN 1 ELSE 0)
             /\ IF r.status = "raised"
                THEN /\ rstate' = "raised"
                     /\ rret' = Raised(r.exc)
                     /\ UNCHANGED <<rpos, results>>
                ELSE /\ results' = Append(results, [title |-> c.title, outcome |-> o,
                                                    result |-> r.value])
                     /\ rpos' = rpos + 1
                     /\ UNCHANGED <<rstate, rret>>
    /\ UNCHANGED <<ropts, call, ret, pathVars, badgeVars, taskVars, mainVars, renderVars, envVars>>

\* all_results = [r for s in sections for r in s.results]
ReportCollect ==
    /\ rstate = "checking"
    /\ rpos = Len(CheckList(ropts)) + 1
    /\ rstate' = "listed"
    /\ UNCHANGED <<ropts, rpos, results, rret, pathVars, badgeVars, runVars, taskVars,
                   mainVars, renderVars, envVars>>

\* css_path.write_text(...); html_path.write_text(...); return html_path
ReportWrite ==
    /\ rstate = "listed"
    /\ LET html_path == Append(ReportDir, ReportStem \o HtmlSuffix)
           css_path == Append(ReportDir, ReportStem \o CssSuffix)
           styled == WriteFile(fs, css_path, <<CssSuffix>>)
       IN  IF IsDir(fs, css_path)
           THEN rstate' = "write raised" /\ rret' = Raised("IsADirectoryError") /\ UNCHANGED fs
           ELSE IF IsDir(fs, html_path)
           THEN /\ rstate' = "write raised"
                /\ rret' = Raised("IsADirectoryError")
                /\ fs' = styled
           ELSE /\ rstate' = "written"
                /\ rret' = Returned(html_path)
                /\ fs' = WriteFile(styled, html_path, Page(Name(css_path), results))
    /\ UNCHANGED <<ropts, rpos, results, world, tcall, tout, pathVars, badgeVars, runVars,
                   mainVars, renderVars, envVars>>

NextReport ==
    \/ ReportMkdir
    \/ ReportCheck
    \/ ReportCollect
    \/ ReportWrite

SpecReport == InitReport /\ [][NextReport]_vars

(***************************************************************************)
(* render_results_section.  The markup is a text like every other: a       *)
(* sequence of characters with LF between the lines.                       *)
(***************************************************************************)
BULLET == "BULLET"

DigitChar(d) == CASE d = 0 -> "0" [] d = 1 -> "1" [] d = 2 -> "2" [] d = 3 -> "3" [] d = 4 -> "4" [] d = 5 -> "5" [] d = 6 -> "6" [] d = 7 -> "7" [] d = 8 -> "8" [] d = 9 -> "9"

\* str(n) of an int
RECURSIVE Decimal(_)
Decimal(n) ==
    IF n < 0 THEN <<"-">> \o Decimal(-n)
    ELSE IF n < 10 THEN <<DigitChar(n)>>
    ELSE Decimal(n \div 10) \o <<DigitChar(n % 10)>>

\* f"{duration_s:.2f}s" of a whole number of seconds
DurationText(n) == Decimal(n) \o <<".", "0", "0", "s">>

\* the first member of the pair badge_for_result returns
BadgeClass(b) ==
    CASE b.status = "ok" -> <<"o", "k">>
      [] b.status = "warn" -> <<"w", "a", "r", "n">>
      [] b.status = "bad" -> <<"b", "a", "d">>

\* the second member of the pair badge_for_result returns
BadgeText(b) ==
    CASE b.label = "OK" -> <<"O", "K">>
      [] b.label = "SKIPPED" -> <<"S", "K", "I", "P", "P", "E", "D">>
      [] b.label = "EXC" -> <<"E", "X", "C">>
      [] b.label = "TIMEOUT" -> <<"T", "I", "M", "E", "O", "U", "T">>
      [] b.label = "MISSING" -> <<"M", "I", "S", "S", "I", "N", "G">>
      [] b.label = "RC" -> <<"R", "C", "=">> \o Decimal(b.code[1])

\* sep.join(texts)
RECURSIVE Join(_, _)
Join(sep, texts) ==
    IF texts = <<>> THEN <<>>
    ELSE IF Len(texts) = 1 THEN texts[1]
    ELSE texts[1] \o sep \o Join(sep, Tail(texts))

Span(class, text) == <<"<", "s", "p", "a", "n", " ", "c", "l", "a", "s", "s", "=", "\"">> \o class \o <<"\"", ">">> \o html_escape(text) \o <<"<", "/", "s", "p", "a", "n", ">">>

\* the block of one result
render_block(r) ==
    LET b == badge_for_result(r)
        badge_class == BadgeClass(b)
        badge_text == BadgeText(b)
        badges ==
            <<Span(<<"b", "a", "d", "g", "e", " ">> \o badge_class, badge_text),
              Span(<<"b", "a", "d", "g", "e">>, DurationText(r.duration_s))>>
            \o (IF Truthy(r.skipped_reason)
                THEN <<Span(<<"b", "a", "d", "g", "e", " ", "w", "a", "r", "n">>, r.skipped_reason[1])>> ELSE <<>>)
        default_open == b.status # "ok"
        data_tags ==
            <<badge_class>>
            \o (IF Truthy(r.skipped_reason) THEN <<<<"s", "k", "i", "p", "p", "e", "d">>>> ELSE <<>>)
            \o (IF b.label = "TIMEOUT" THEN <<<<"t", "i", "m", "e", "o", "u", "t">>>> ELSE <<>>)
            \o (IF b.label = "EXC" THEN <<<<"e", "x", "c">>>> ELSE <<>>)
            \o (IF b.label = "MISSING" THEN <<<<"m", "i", "s", "s", "i", "n", "g">>>> ELSE <<>>)
    IN  JoinLines(
            <<<<"<", "d", "i", "v", " ", "c", "l", "a", "s", "s", "=", "\"", "b", "l", "o", "c", "k", "\"", ">">>,
              <<" ", " ", "<", "d", "e", "t", "a", "i", "l", "s", " ", "c", "l", "a", "s", "s", "=", "\"", "c", "m", "d", "b", "l", "o", "c", "k", "\"", " ", "d", "a", "t", "a", "-", "s", "t", "a", "t", "u", "s", "=", "\"">> \o html_escape(badge_class)
                  \o <<"\"", " ", "d", "a", "t", "a", "-", "t", "a", "g", "s", "=", "\"">> \o html_escape(Join(<<" ">>, data_tags))
                  \o <<"\"", " ">> \o (IF default_open THEN <<"o", "p", "e", "n">> ELSE <<>>) \o <<">">>,
              <<" ", " ", " ", " ", "<", "s", "u", "m", "m", "a", "r", "y", ">">>,
              <<" ", " ", " ", " ", " ", " ", "<", "d", "i", "v", " ", "c", "l", "a", "s", "s", "=", "\"", "s", "u", "m", "l", "e", "f", "t", "\"", ">">>,
              <<" ", " ", " ", " ", " ", " ", " ", " ", "<", "d", "i", "v", " ", "c", "l", "a", "s", "s", "=", "\"", "t", "i", "t", "l", "e", "l", "i", "n", "e", "\"", ">">> \o html_escape(r.title) \o <<"<", "/", "d", "i", "v", ">">>,
              <<" ", " ", " ", " ", " ", " ", " ", " ", "<", "d", "i", "v", " ", "c", "l", "a", "s", "s", "=", "\"", "c", "m", "d", "i", "n", "l", "i", "n", "e", "\"", ">">>,
              <<" ", " ", " ", " ", " ", " ", " ", " ", " ", " ", "<", "c", "o", "d", "e", " ", "c", "l", "a", "s", "s", "=", "\"", "c", "m", "d", " ", "c", "m", "d", "-", "-", "s", "u", "m", "m", "a", "r", "y", "\"", ">">> \o html_escape(r.command)
                  \o <<"<", "/", "c", "o", "d", "e", ">">>,
              <<" ", " ", " ", " ", " ", " ", " ", " ", " ", " ", "<", "b", "u", "t", "t", "o", "n", " ", "c", "l", "a", "s", "s", "=", "\"", "c", "o", "p", "y", "\"", " ", "t", "y", "p", "e", "=", "\"", "b", "u", "t", "t", "o", "n", "\"", " ", "d", "a", "t", "a", "-", "c", "o", "p", "y", "=", "\"">>
                  \o html_escape(r.command) \o <<"\"", ">", "C", "o", "p", "y", "<", "/", "b", "u", "t", "t", "o", "n", ">">>,
              <<" ", " ", " ", " ", " ", " ", " ", " ", "<", "/", "d", "i", "v", ">">>,
              <<" ", " ", " ", " ", " ", " ", "<", "/", "d", "i", "v", ">">>,
              <<" ", " ", " ", " ", " ", " ", "<", "d", "i", "v", " ", "c", "l", "a", "s", "s", "=", "\"", "s", "u", "m", "r", "i", "g", "h", "t", "\"", ">">>,
              <<" ", " ", " ", " ", " ", " ", " ", " ", "<", "d", "i", "v", " ", "c", "l", "a", "s", "s", "=", "\"", "b", "a", "d", "g", "e", "s", "\"", ">">> \o Flatten(badges) \o <<"<", "/", "d", "i", "v", ">">>,
              <<" ", " ", " ", " ", " ", " ", "<", "/", "d", "i", "v", ">">>,
              <<" ", " ", " ", " ", "<", "/", "s", "u", "m", "m", "a", "r", "y", ">">>,
              <<" ", " ", " ", " ", "<", "p", "r", "e", ">">> \o (IF r.stdout # <<>> THEN html_escape(r.stdout)
                                       ELSE <<"(", "n", "o", " ", "o", "u", "t", "p", "u", "t", ")">>) \o <<"<", "/", "p", "r", "e", ">">>,
              IF r.stderr # <<>>
              THEN <<" ", " ", " ", " ", "<", "d", "i", "v", " ", "c", "l", "a", "s", "s", "=", "\"", "s", "u", "b", "h", "e", "a", "d", "\"", ">", "s", "t", "d", "e", "r", "r", "<", "/", "d", "i", "v", ">">> \o <<LF>>
                   \o <<" ", " ", " ", " ", "<", "p", "r", "e", ">">> \o html_escape(r.stderr) \o <<"<", "/", "p", "r", "e", ">">>
              ELSE <<>>,
              <<" ", " ", "<", "/", "d", "e", "t", "a", "i", "l", "s", ">">>,
              <<"<", "/", "d", "i", "v", ">">>>>)

\* the number of results of the class
CountClass(rs, class) == Cardinality({i \in 1..Len(rs) : badge_for_result(rs[i]).status = class})

_format_section_meta(rs) ==
    Decimal(Len(rs)) \o <<" ", "c", "h", "e", "c", "k", "s", " ">> \o <<BULLET, " ">>
    \o Decimal(CountClass(rs, "ok")) \o <<" ", "o", "k", " ">> \o <<BULLET, " ">>
    \o Decimal(CountClass(rs, "warn")) \o <<" ", "w", "a", "r", "n", " ">> \o <<BULLET, " ">>
    \o Decimal(CountClass(rs, "bad")) \o <<" ", "b", "a", "d">>

\* the status of the section's last check (a mutant)
section_status_of_last(rs) ==
    IF rs = <<>> THEN <<"o", "k">> ELSE BadgeClass(badge_for_result(rs[Len(rs)]))

_section_status(rs) ==
    IF CountClass(rs, "bad") > 0 THEN <<"b", "a", "d">>
    ELSE IF CountClass(rs, "warn") > 0 THEN <<"w", "a", "r", "n">>
    ELSE <<"o", "k">>

render_results_section(sec) ==
    JoinLines(
        <<<<"<", "s", "e", "c", "t", "i", "o", "n", " ", "i", "d", "=", "\"">> \o html_escape(sec.section_id) \o <<"\"", " ", "d", "a", "t", "a", "-", "s", "t", "a", "t", "u", "s", "=", "\"">>
              \o html_escape(_section_status(sec.results)) \o <<"\"", ">">>,
          <<" ", " ", "<", "h", "2", ">">>,
          <<" ", " ", " ", " ", "<", "s", "p", "a", "n", ">">> \o html_escape(sec.title) \o <<"<", "/", "s", "p", "a", "n", ">">>,
          <<" ", " ", " ", " ", "<", "s", "p", "a", "n", " ", "c", "l", "a", "s", "s", "=", "\"", "s", "e", "c", "t", "i", "o", "n", "m", "e", "t", "a", "\"", ">">>
              \o html_escape(_format_section_meta(sec.results)) \o <<"<", "/", "s", "p", "a", "n", ">">>,
          <<" ", " ", "<", "/", "h", "2", ">">>,
          JoinLines([i \in 1..Len(sec.results) |-> render_block(sec.results[i])]),
          <<"<", "/", "s", "e", "c", "t", "i", "o", "n", ">">>>>)

\* the item of toc_items for one section
toc_item(sec) ==
    <<"<", "d", "i", "v", " ", "c", "l", "a", "s", "s", "=", "\"", "t", "o", "c", "i", "t", "e", "m", " ">> \o _section_status(sec.results) \o <<"\"", ">">>
    \o <<"<", "a", " ", "h", "r", "e", "f", "=", "\"", "#">> \o html_escape(sec.section_id) \o <<"\"", ">">> \o html_escape(sec.title) \o <<"<", "/", "a", ">">>
    \o <<"<", "s", "p", "a", "n", " ", "c", "l", "a", "s", "s", "=", "\"", "b", "a", "d", "g", "e", "\"", ">">> \o html_escape(_format_section_meta(sec.results)) \o <<"<", "/", "s", "p", "a", "n", ">">>
    \o <<"<", "/", "d", "i", "v", ">">>

DetailsClose == <<"<", "/", "d", "e", "t", "a", "i", "l", "s", ">">>

DivClose == <<"<", "/", "d", "i", "v", ">">>

\* a full CommandResult, with title and command
FullResult(title, command, duration_s, returncode, stdout, stderr, skipped_reason) ==
    [title |-> title, command |-> command, duration_s |-> duration_s,
     returncode |-> returncode, stdout |-> stdout, stderr |-> stderr,
     skipped_reason |-> skipped_reason]

\* results of every status: a success, one whose texts are markup, a non-zero
\* exit with stderr, a missing command, a timeout, an exception and a skip
RenderResults ==
    {FullResult(<<"t">>, <<"c", "m", "d">>, 0, Some(0), <<"o", "k">>, <<>>, None),
     FullResult(DivClose, <<"a", " ", "\"", "b", "\"", " ", "<", "c", ">">>, 1, Some(0), DetailsClose \o <<LF>> \o DivClose,
                DetailsClose, None),
     FullResult(<<"t">>, <<"c", "m", "d">>, 1, Some(2), <<>>, <<"a", LF, "&">>, None),
     FullResult(<<"t">>, <<"c", "m", "d">>, 0, Some(127), <<>>, <<"a">>, None),
     FullResult(<<"t">>, <<"c", "m", "d">>, 2, None, TimedOutNote, <<>>, None),
     FullResult(<<"t">>, <<"c", "m", "d">>, 0, None, <<>>, ExceptionTag \o OSErrorText, None),
     FullResult(<<"t">>, <<"c", "m", "d">>, 0, None, SkippedPrefix \o DetailsClose, <<>>,
                Some(DetailsClose))}

RenderSections ==
    [title : {<<"S">>, <<"<", "/", "d", "i", "v", ">">>}, section_id : {<<"s">>},
     results : SeqsUpTo(RenderResults, MaxChecks)]

InitRender ==
    /\ section \in RenderSections
    /\ html = None
    /\ toc = None
    /\ IdlePath
    /\ IdleBadgeVars
    /\ IdleRun
    /\ IdleTask
    /\ IdleMain
    /\ IdleReport
    /\ IdleEnv

RenderResultsSection ==
    /\ html = None
    /\ html' = Some(render_results_section(section))
    /\ UNCHANGED <<section, toc, pathVars, badgeVars, runVars, taskVars, mainVars, reportVars,
                   envVars>>

\* the item of the section in toc_items of generate_report
RenderTocItem ==
    /\ toc = None
    /\ toc' = Some(toc_item(section))
    /\ UNCHANGED <<section, html, pathVars, badgeVars, runVars, taskVars, mainVars, reportVars,
                   envVars>>

NextRender ==
    \/ RenderResultsSection
    \/ RenderTocItem

SpecRender == InitRender /\ [][NextRender]_vars

(***************************************************************************)
(* _ensure_path_prefix, as run_command applies it to a copy of os.environ. *)
(***************************************************************************)
UsrSbin == <<"/", "u", "s", "r", "/", "s", "b", "i", "n">>

Sbin == <<"/", "s", "b", "i", "n">>

\* prefix = "/usr/sbin:/sbin"
PathPrefix == UsrSbin \o <<":">> \o Sbin

\* the PATH that is always set to the prefix followed by the old value (a mutant)
ensure_path_prefix_always(path) ==
    IF path # <<>> THEN PathPrefix \o <<":">> \o path ELSE PathPrefix

\* _ensure_path_prefix, on the value of env.get("PATH", ""): the PATH of the
\* env it returns
ensure_path_prefix(path) ==
    IF ~Contains(path, PathPrefix)
    THEN IF path # <<>> THEN PathPrefix \o <<":">> \o path ELSE PathPrefix
    ELSE path

\* text.split(":")
RECURSIVE SplitColon(_, _)
SplitColon(text, cur) ==
    IF text = <<>> THEN <<cur>>
    ELSE IF Head(text) = ":" THEN <<cur>> \o SplitColon(Tail(text), <<>>)
    ELSE SplitColon(Tail(text), Append(cur, Head(text)))

\* the directories a PATH can list: the two of the prefix, another, two whose
\* names hold the names of the prefix, and the empty entry
PathEntries ==
    {UsrSbin, Sbin, <<"/", "b", "i", "n">>, <<"/", "o", "p", "t", "/", "u", "s", "r", "/", "s", "b", "i", "n">>, <<"/", "s", "b", "i", "n", "-", "o", "l", "d">>, <<>>}

\* PATH unset, and every list of up to MaxPathEntries entries (the empty
\* list and the list of one empty entry are both the empty text)
EnvironPaths ==
    {None} \cup {Some(Join(<<":">>, es)) : es \in SeqsUpTo(PathEntries, MaxPathEntries)}

InitEnv ==
    /\ environ \in EnvironPaths
    /\ passed = None
    /\ IdlePath
    /\ IdleBadgeVars
    /\ IdleRun
    /\ IdleTask
    /\ IdleMain
    /\ IdleReport
    /\ IdleRender

\* env = _ensure_path_prefix(dict(os.environ))
EnsurePathPrefix ==
    /\ passed = None
    /\ passed' = Some(ensure_path_prefix(IF environ = None THEN <<>> ELSE environ[1]))
    /\ UNCHANGED <<environ, pathVars, badgeVars, runVars, taskVars, mainVars, reportVars,
                   renderVars>>

NextEnv == EnsurePathPrefix

SpecEnv == InitEnv /\ [][NextEnv]_vars

(***************************************************************************)
(* task_find_orphans on its own, over the applications and the support     *)
(* folders present, the skip pattern and the limit.                        *)
(***************************************************************************)
Foo == <<"F", "o", "o">>

FooHelper == <<"F", "o", "o", " ", "H", "e", "l", "p", "e", "r">>

Bar == <<"B", "a", "r">>

Fo == <<"f", "o">>

Logs == <<"L", "o", "g", "s">>

Baz == <<"B", "a", "z">>

\* entries of the applications directory: an application, and a folder that
\* is not one
AppEntries == {Foo \o AppSuffix, Bar}

SupportFolders == {FooHelper, Bar, Fo, Logs}

\* a pattern that matches no name, re.compile(""), the default, and a prefix
SkipPatterns ==
    {Pattern({}, TRUE), Pattern({<<>>}, FALSE), DEFAULT_ORPHANS_SKIP_RE,
     Pattern({<<"B">>}, FALSE)}

OrphanLimits == {-1, 0, 1, DEFAULT_ORPHANS_LIMIT}

OrphanWorlds ==
    [apps : SUBSET AppEntries, folders : SUBSET SupportFolders,
     has : {"both", "no support", "no applications"}]

\* the support directory holds the folders and one plain file
OrphanFs(w) ==
    Tree({<<>>, <<U>>, <<U, JO>>}, Dir)
    ++ (IF w.has = "no applications" THEN EmptyFs
        ELSE Tree({Applications} \cup {Append(Applications, e) : e \in w.apps}, Dir))
    ++ (IF w.has = "no support" THEN EmptyFs
        ELSE Tree({<<U, JO, SUP>>} \cup {<<U, JO, SUP, n>> : n \in w.folders}, Dir)
             ++ Tree({<<U, JO, SUP, Baz>>}, PlainFile))

InitOrphans ==
    /\ world \in OrphanWorlds
    /\ fs = OrphanFs(world)
    /\ tcall = [task |-> "none"]
    /\ tout = [status |-> "none"]
    /\ IdlePath
    /\ IdleBadgeVars
    /\ IdleRun
    /\ IdleMain
    /\ IdleReport
    /\ IdleRender
    /\ IdleEnv

FindOrphans ==
    /\ tout.status = "none"
    /\ \E limit \in OrphanLimits, skip_re \in SkipPatterns :
         LET a == [DefaultArgs EXCEPT !.orphans_limit = limit]
             r == task_find_orphans(fs, a.app_support_dir, a.applications_dir,
                                    a.orphans_limit, skip_re)
         IN  /\ tcall' = [task |-> TASK_FIND_ORPHANS, args |-> a, env |-> NoFailures,
                          skip_re |-> skip_re]
             /\ tout' = TaskOut(r)
             /\ fs' = r.fs
    /\ UNCHANGED <<world, pathVars, badgeVars, runVars, mainVars, reportVars, renderVars, envVars>>

NextOrphans == FindOrphans

SpecOrphans == InitOrphans /\ [][NextOrphans]_vars


MutatingTasks ==
    {TASK_CLEANUP_ARCHIVES, TASK_ARCHIVE_ORPHANS, TASK_CHROME, TASK_COPY, TASK_BREW}

TaskDone == tout.status # "none"

\* C1: in dry-run mode each of the five mutating tasks leaves the filesystem
\* exactly as it found it: nothing is created, modified or removed.
C1_DryRunLeavesFilesystem ==
    TaskDone /\ tcall.task \in MutatingTasks /\ tcall.args.mode = MODE_DRY_RUN
        => fs = before

\* C3: every task validates the directory arguments it writes to or deletes
\* from, so that in apply mode no task creates, modifies or removes anything
\* outside the home directory (the application-support directory of
\* archive-orphans and the destination of copy-speed-test included).
C3_NothingOutsideHome ==
    TaskDone /\ tcall.args.mode = MODE_APPLY =>
        \A q \in Changed(before, fs) : IsUnder(Home, q)

\* main is over
MainDone == pc = "exit"

Raising == {i \in 1..Len(executed) : executed[i].status = "raised"}

\* C5: when a task raises (a path-validation error or another failure) only
\* that task is aborted: every other selected task is still executed and the
\* process completes with exit code 0.
C5_RaisingTaskAbortsOnlyItself ==
    MainDone /\ Raising # {} =>
        /\ \A t \in Range(tasks) : \E i \in 1..Len(executed) : executed[i].task = t
        /\ exit_code = Some(0)

\* brew commands that change the installation
StateChangingVerbs ==
    {"update", "upgrade", "upgrade --cask --greedy", "autoremove",
     "cleanup --prune=7 --quiet", "untap --force", "uninstall --cask", "install --cask"}

StateChanging(c) == c.prog \in {"zip", "rsync", "osascript", "pkill"}
                    \/ (c.prog = "brew" /\ c.verb \in StateChangingVerbs)

\* C6: in report mode, as in dry-run mode, a task only logs: no file is written
\* or deleted and no state-changing command is run (the brew list and cask-list
\* files included); actions are performed in apply mode only.
C6_OnlyApplyActs ==
    TaskDone /\ tcall.args.mode # MODE_APPLY =>
        /\ fs = before
        /\ \A i \in 1..Len(tout.cmds) : ~StateChanging(tout.cmds[i])

\* C11: in dry-run mode task_brew_maintenance never invokes the brew binary,
\* whatever action flags are given (fix-missing-casks included): it only logs
\* what it would run or write.
C11_DryRunNeverRunsBrew ==
    TaskDone /\ tcall.task = TASK_BREW /\ tcall.args.mode = MODE_DRY_RUN =>
        \A i \in 1..Len(tout.cmds) : tout.cmds[i].prog # "brew"

\* the tasks main called, in the order of the calls
ExecutedTasks == [i \in 1..Len(executed) |-> executed[i].task]

\* C12: with no --task option main runs exactly report-html when the mode is
\* report, and in dry-run or apply mode it runs no task, logs a line and
\* returns 2; in every other case main returns 0.
C12_NoTaskDefaultsAndExitCodes ==
    MainDone =>
        IF margs.task = <<>> /\ margs.mode # MODE_REPORT
        THEN /\ executed = <<>>
             /\ Len(mlog) = 1
             /\ exit_code = Some(2)
        ELSE /\ margs.task = <<>> => ExecutedTasks = <<TASK_REPORT>>
             /\ exit_code = Some(0)

\* the log lines that end the processing of one item
Count(log, msgs) == Cardinality({i \in 1..Len(log) : log[i].msg \in msgs})

Logged(log, msgs, item) == \E i \in 1..Len(log) : log[i].msg \in msgs /\ log[i].item = item

\* C10: a failure on one item of a task (an archive that cannot be deleted, a
\* folder whose zip fails or raises, a cache file that cannot be removed) is
\* logged or ignored, and every other item is still processed: each eligible
\* archive is deleted or reported, each listed folder is archived, skipped or
\* reported, each cache directory is cleaned of all that can be removed.
C10_ItemFailureDoesNotStopTask ==
    TaskDone /\ tout.status = "returned" /\ tcall.args.mode = MODE_APPLY =>
        LET a == tcall.args
            e == tcall.env
        IN  /\ tcall.task = TASK_CLEANUP_ARCHIVES =>
                 \A q \in Candidates(before, Resolve(ExpandUser(a.archive_dir), Cwd)) :
                     IF q \in e.unlinkFails
                     THEN Logged(tout.log, {"failed to delete"}, q)
                     ELSE Logged(tout.log, {"deleted"}, q) /\ ~Exists(fs, q)
            /\ tcall.task = TASK_ARCHIVE_ORPHANS =>
                 /\ Count(tout.log, {"skip (not found)", "zip failed", "archive failed",
                                     "archived and removed"}) = Len(a.archive_folder)
                 /\ \A n \in Range(a.archive_folder) :
                        n \notin e.zipRaises \cup e.zipFails \cup e.rmtreeFails
                            => ~Exists(fs, Append(Resolve(ExpandUser(a.app_support_dir), Cwd), n))
            /\ tcall.task = TASK_CHROME /\ Logged(tout.log, {"found profiles"},
                                                   Resolve(ExpandUser(a.chrome_dir), Cwd)) =>
                 \A pr \in Profiles(before, Resolve(ExpandUser(a.chrome_dir), Cwd)) :
                   \A i \in 1..Len(CHROME_CLEAN_DIRS) :
                     LET dir_path == Append(pr, CHROME_CLEAN_DIRS[i])
                     IN  IsDir(before, dir_path) =>
                           /\ Logged(tout.log, {"cleaned"}, dir_path)
                           /\ \A q \in Descendants(before, dir_path) :
                                  (\A bad \in e.removeFails : ~IsUnder(q, bad))
                                      => ~Exists(fs, q)

\* a first item failed and a later item was processed: a deletion failed and
\* another archive was deleted after it
C10_Witness ==
    /\ TaskDone /\ tcall.task = TASK_CLEANUP_ARCHIVES
    /\ \E i, j \in 1..Len(tout.log) :
          i < j /\ tout.log[i].msg = "failed to delete" /\ tout.log[j].msg = "deleted"

\* the installed application names: the .app entries without the suffix, in
\* lower case
InstalledNames(w) ==
    {Lower(SubSeq(e, 1, Len(e) - Len(AppSuffix))) : e \in {x \in w.apps : EndsWith(x, AppSuffix)}}

\* the folder is orphaned: its name does not match the skip pattern and no
\* installed application name is a substring of it or contains it
Orphaned(w, skip_re, n) ==
    /\ ~ReMatch(skip_re, n)
    /\ \A app \in InstalledNames(w) : ~Contains(Lower(n), app) /\ ~Contains(app, Lower(n))

\* the folders listed by name in the log
ListedOrphans == SelectSeq(tout.log, LAMBDA e : e.msg = "orphan")

\* C16: task_find_orphans reports a support folder as orphaned if and only if
\* its name does not match the skip pattern and no installed application name
\* is a substring of, or contains, the lowercased folder name.
C16_ReportedIffOrphaned ==
    TaskDone =>
        \A n \in world.folders :
            Logged(tout.log, {"orphan"}, <<U, JO, SUP, n>>) <=> Orphaned(world, tcall.skip_re, n)

\* C16 as the code has it: when the support directory exists and the
\* applications directory can be listed, the folders counted as orphaned are
\* exactly those whose name does not match the skip pattern and that no
\* installed application name is a substring of or contains, and the slice
\* [:limit] of their sorted names is listed; otherwise one line is logged and
\* no folder is reported.
C16_CountedIffOrphanedListedToLimit ==
    TaskDone =>
        LET orphans == Sorted({n \in world.folders : Orphaned(world, tcall.skip_re, n)})
            shown == Slice(orphans, tcall.args.orphans_limit)
        IN  IF world.has # "both"
            THEN Len(tout.log) = 1 /\ ListedOrphans = <<>>
            ELSE /\ tout.log[1] = Entry("found potential orphaned folders", "", orphans)
                 /\ ListedOrphans = [i \in 1..Len(shown) |->
                                        Entry("orphan", "", <<U, JO, SUP, shown[i]>>)]
                 /\ Len(tout.log) = 1 + Len(shown)

\* the example of the specification: applications {Foo}, folders {Foo Helper,
\* Bar}, a skip pattern that matches nothing: exactly Bar is listed
C16_Witness ==
    /\ TaskDone
    /\ world = [apps |-> {Foo \o AppSuffix}, folders |-> {FooHelper, Bar}, has |-> "both"]
    /\ tcall.skip_re = Pattern({}, TRUE)
    /\ tcall.args.orphans_limit = DEFAULT_ORPHANS_LIMIT
    /\ ListedOrphans = <<Entry("orphan", "", <<U, JO, SUP, Bar>>)>>

\* the archives the call created or rewrote
CreatedArchives ==
    {q \in Changed(before, fs) : Exists(fs, q) /\ fs[q].kind = "file"}

\* C17: every archive task_archive_orphans creates is tagged with a deletion
\* date strictly later than the day on which it is created, for every value of
\* days the command line accepts, so it is not eligible for cleanup-archives
\* on that day.
C17_ArchiveTaggedAfterToday ==
    TaskDone /\ tcall.task = TASK_ARCHIVE_ORPHANS =>
        \A q \in CreatedArchives :
            /\ TaggedDate(Name(q)) # None
            /\ ~StrLeq(TaggedDate(Name(q))[1], DateStr(0))
            /\ q \notin Candidates(fs, Parent(q))

\* the name ends with _delete_YYYY-MM-DD.zip and the date is today or earlier
TaggedNotLater(name) ==
    LET n == Len(name)
        d == SubSeq(name, n - 13, n - 4)
    IN  /\ n >= 22
        /\ EndsWith(name, DeleteTag \o d \o ZipSuffix)
        /\ IsDatePattern(d)
        /\ StrLeq(d, DateStr(0))

\* the directory validate_home_path returned to the call
ValidatedArchiveDir == validate_home_path(tcall.args.archive_dir, Cwd).value

\* C18: in apply mode task_cleanup_archives deletes a file only if it lies
\* directly in the validated archive directory, its name ends with
\* _delete_YYYY-MM-DD.zip and the tagged date is not later than today; in
\* every other mode nothing is deleted and each eligible archive is logged as
\* 'would delete'.
C18_DeletesOnlyDueArchives ==
    TaskDone /\ tcall.task = TASK_CLEANUP_ARCHIVES =>
        IF tcall.args.mode = MODE_APPLY
        THEN \A q \in Changed(before, fs) :
                /\ ~Exists(fs, q)
                /\ before[q].kind = "file"
                /\ Parent(q) = ValidatedArchiveDir
                /\ TaggedNotLater(Name(q))
        ELSE /\ fs = before
             /\ tout.status = "returned" =>
                   \A q \in Children(before, ValidatedArchiveDir) :
                       TaggedNotLater(Name(q)) => Logged(tout.log, {"would delete"}, q)

\* an apply run deleted the past archive and kept the later-dated one, the
\* untagged one and the past archive one folder down
C18_Witness ==
    /\ TaskDone /\ tcall.task = TASK_CLEANUP_ARCHIVES /\ tcall.args.mode = MODE_APPLY
    /\ ~Exists(fs, Append(ValidatedArchiveDir, PastArchive))
    /\ Exists(before, Append(ValidatedArchiveDir, PastArchive))
    /\ Exists(fs, Append(ValidatedArchiveDir, FutureArchive))
    /\ Exists(fs, Append(ValidatedArchiveDir, UntaggedArchive))
    /\ Exists(fs, ValidatedArchiveDir \o <<Kept, PastArchive>>)

\* the titles of the checks listed for the report
ListedTitles == [i \in 1..Len(CheckList(ropts)) |-> CheckList(ropts)[i].title]

\* C19: in generate_report every check is executed exactly once in its fixed
\* order, and a check that times out, fails or exits non-zero does not prevent
\* a later check from being run and recorded: no check ends the report, and
\* the report holds one result per listed check, in the order of the list.
C19_EveryCheckRunsOnce ==
    /\ rstate # "raised"
    /\ rstate = "listed" =>
          /\ [i \in 1..Len(results) |-> results[i].title] = ListedTitles
          /\ spawned = Cardinality({i \in 1..Len(results) :
                                       results[i].result.skipped_reason = None
                                       /\ CheckList(ropts)[i].kind = "do"})

\* the places of text at which pat begins
Occurrences(text, pat) ==
    {k \in 1..(Len(text) - Len(pat) + 1) : SubSeq(text, k, k + Len(pat) - 1) = pat}

\* pat stands in text from place k on
At(text, k, pat) == k + Len(pat) - 1 <= Len(text) /\ SubSeq(text, k, k + Len(pat) - 1) = pat

\* C20: for every section, render_results_section emits for each check a
\* block in which the closing tag </details> is immediately followed, on the
\* next line, by the closing </div> of its block: there is one </details> per
\* check and each is followed by a line feed and </div>.
C20_DetailsClosedBeforeBlock ==
    html # None =>
        /\ Cardinality(Occurrences(html[1], DetailsClose)) = Len(section.results)
        /\ \A k \in Occurrences(html[1], DetailsClose) :
              At(html[1], k + Len(DetailsClose), <<LF>> \o DivClose)

\* a section of two checks, one not ok and with stderr text, was rendered
C20_Witness ==
    /\ html # None
    /\ Len(section.results) = 2
    /\ \E i \in 1..2 : section.results[i].stderr # <<>> /\ section.results[i].returncode = Some(2)
    /\ Cardinality(Occurrences(html[1], DetailsClose)) = 2

\* the files the call of generate_report wrote
ReportFilesWritten ==
    {p \in Changed(ReportFs(world), fs) : Exists(fs, p) /\ fs[p].kind = "file"}

\* C21: a call of generate_report that returns has written exactly two files
\* into the output directory, an .html file and a .css file sharing the stem
\* mac_maintenance_report_<timestamp>; the HTML references the CSS file by its
\* file name, and the returned path is the HTML file.
C21_ReportWritesPageAndStylesheet ==
    rstate = "written" =>
        \E page, sheet \in ReportFilesWritten :
            /\ ReportFilesWritten = {page, sheet}
            /\ Parent(page) = ReportDir /\ Parent(sheet) = ReportDir
            /\ Name(page) = ReportStem \o HtmlSuffix
            /\ Name(sheet) = ReportStem \o CssSuffix
            /\ Contains(fs[page].data[1], <<"h", "r", "e", "f", "=", "\"">> \o Name(sheet) \o <<"\"">>)
            /\ rret = Returned(page)
            /\ \A p \in DOMAIN ReportFs(world) : Exists(fs, p)

\* a report was written into a directory that held an older report and a
\* page of the same name, after a check had failed
C21_Witness ==
    /\ rstate = "written"
    /\ world = "stale"
    /\ Failures > 0
    /\ Cardinality(ReportFilesWritten) = 2

\* the directory validate_home_path returned to the call
ValidatedChromeDir == validate_home_path(tcall.args.chrome_dir, Cwd).value

\* the requests to the browser, in the order close_chrome sends them
ChromeRequests ==
    <<Cmd("osascript", "quit", <<>>), Cmd("pkill", "-TERM", <<>>), Cmd("pkill", "-KILL", <<>>)>>

\* chrome_running() after the k-th request of close_chrome, the browser
\* stopping as tcall.env.chromeStops says
RunningAfter(k) ==
    CASE tcall.env.chromeStops = "stopped" -> FALSE
      [] tcall.env.chromeStops = "quit" -> k < 1
      [] tcall.env.chromeStops = "term" -> k < 2
      [] tcall.env.chromeStops = "kill" -> k < 3
      [] tcall.env.chromeStops = "never" -> TRUE

\* C22: close_chrome issues the quit request first, sends terminate only if
\* the browser is still running after the quit request and kill only if it is
\* still running after terminate, and reports success exactly when the browser
\* is observed not running afterwards; task_chrome_cleanup removes cache
\* directories only after the browser was observed not running or
\* close_chrome reported success.
C22_CloseChromeEscalates ==
    TaskDone /\ tcall.task = TASK_CHROME =>
        LET n == Len(tout.cmds)
        IN  /\ n <= 3 /\ tout.cmds = SubSeq(ChromeRequests, 1, n)
            /\ n >= 2 => RunningAfter(1)
            /\ n = 3 => RunningAfter(2)
            /\ n >= 1 =>
                  (Logged(tout.log, {"failed to close chrome"}, ValidatedChromeDir)
                      <=> RunningAfter(n))
            /\ fs # before => ~RunningAfter(n)

\* the browser ignored the quit request and stopped at terminate, and the
\* caches were then removed
C22_Witness ==
    /\ TaskDone /\ tcall.task = TASK_CHROME
    /\ tout.cmds = SubSeq(ChromeRequests, 1, 2)
    /\ tcall.env.chromeStops = "term"
    /\ fs # before

\* the entries of the PATH given to the subprocess
PassedEntries == LET es == SplitColon(passed[1], <<>>) IN {es[i] : i \in 1..Len(es)}

\* C23: for every initial value of PATH (unset, empty, or any colon-separated
\* list), the environment that run_command passes to the subprocess has both
\* /usr/sbin and /sbin as entries of its PATH.
C23_PathHasSbinEntries ==
    passed # None => UsrSbin \in PassedEntries /\ Sbin \in PassedEntries

\* the text cut to its first max_lines lines and then to max_chars characters
LinesThenChars(text, max_chars, max_lines) ==
    LET lines == splitlines(text)
        kept == JoinLines(SubSeq(lines, 1, IF Len(lines) > max_lines THEN max_lines ELSE Len(lines)))
    IN  SubSeq(kept, 1, IF Len(kept) > max_chars THEN max_chars ELSE Len(kept))

\* one of the caps was hit for the text
CapHit(text, max_chars, max_lines) ==
    LET lines == splitlines(text)
    IN  \/ Len(lines) > max_lines
        \/ Len(JoinLines(lines)) > max_chars

\* the returned stream begins with the capped text and, when a cap was hit,
\* ends with the truncation note
CappedWithNote(captured, returned, note) ==
    LET text == strip_ansi(captured.text)
    IN  /\ StartsWith(returned, LinesThenChars(text, call.max_chars, call.max_lines))
        /\ CapHit(text, call.max_chars, call.max_lines) => EndsWith(returned, note)

\* C24: on every path of run_command that captures output (normal exit and
\* timeout), each stream is capped independently, first to max_lines lines and
\* then to max_chars characters, and whenever either cap was hit for a stream
\* a textual truncation note is appended at the end of that stream.
C24_CapsAndTruncationNote ==
    ret.status = "returned" /\ ~Truthy(call.skip_reason) /\ call.outcome.kind \in {"exit", "timeout"} =>
        /\ CappedWithNote(OrEmpty(call.outcome.stdout), ret.value.stdout, OutputTruncatedNote)
        /\ CappedWithNote(OrEmpty(call.outcome.stderr), ret.value.stderr, StderrTruncatedNote)

\* bad > warn > ok
StatusRank(status) == CASE status = "ok" -> 0 [] status = "warn" -> 1 [] status = "bad" -> 2

\* the worst status among the checks of the section, ok when it has none
WorstStatus ==
    LET found == {"ok"} \cup {badge_for_result(section.results[i]).status : i \in 1..Len(section.results)}
        worst == CHOOSE x \in found : \A y \in found : StatusRank(y) <= StatusRank(x)
    IN  CASE worst = "ok" -> <<"o", "k">>
          [] worst = "warn" -> <<"w", "a", "r", "n">>
          [] worst = "bad" -> <<"b", "a", "d">>

\* C25: _section_status returns the worst status among the section's checks
\* under the order bad > warn > ok, and ok for an empty section; the
\* table-of-contents entry and the rendered section for the same section carry
\* that same status.
C25_SectionStatusIsWorst ==
    /\ html # None =>
          /\ _section_status(section.results) = WorstStatus
          /\ StartsWith(html[1], <<"<", "s", "e", "c", "t", "i", "o", "n", " ", "i", "d", "=", "\"">> \o html_escape(section.section_id)
                                   \o <<"\"", " ", "d", "a", "t", "a", "-", "s", "t", "a", "t", "u", "s", "=", "\"">> \o WorstStatus \o <<"\"", ">">> \o <<LF>>)
    /\ toc # None =>
          StartsWith(toc[1], <<"<", "d", "i", "v", " ", "c", "l", "a", "s", "s", "=", "\"", "t", "o", "c", "i", "t", "e", "m", " ">> \o WorstStatus \o <<"\"", ">">>)

\* a section whose first check is bad and whose second is only a warning was
\* rendered and listed in the table of contents
C25_Witness ==
    /\ html # None /\ toc # None
    /\ Len(section.results) = 2
    /\ badge_for_result(section.results[1]).status = "bad"
    /\ badge_for_result(section.results[2]).status = "warn"

\* the selected tasks in the order main has them in
SelectedInOrder == SelectSeq(TaskOrder, LAMBDA t : t \in Range(tasks))

\* C26: main runs the selected tasks in the fixed order report-html,
\* brew-maintenance, find-orphans, archive-orphans, cleanup-archives,
\* chrome-cleanup, copy-speed-test, whatever the order of the --task options,
\* and runs each selected task exactly once even when its option is repeated;
\* a task that was not selected is never run.
C26_SelectedTasksOnceInOrder ==
    MainDone => ExecutedTasks = SelectedInOrder

\* the Application Support directory and the archive path of a folder of the call
ResolvedSupportDir == Resolve(ExpandUser(tcall.args.app_support_dir), Cwd)

ArchivePathOf(folder) ==
    Append(ValidatedArchiveDir,
           ReplaceSpaces(folder) \o DeleteTag \o DateStr(tcall.args.archive_days) \o ZipSuffix)

\* the folders of the call that were there before it and are gone after it
RemovedFolders ==
    {n \in Range(tcall.args.archive_folder) :
        /\ IsDir(before, Append(ResolvedSupportDir, n))
        /\ ~Exists(fs, Append(ResolvedSupportDir, n))}

\* C27: task_archive_orphans removes a source folder only in apply mode and
\* only after zip exited with status 0 for that folder, with the folder in
\* the archive; a folder whose zip exits non-zero or raises is left with
\* everything in it.
C27_RemovedOnlyAfterZipSucceeded ==
    TaskDone /\ tcall.task = TASK_ARCHIVE_ORPHANS =>
        /\ \A n \in RemovedFolders :
              /\ tcall.args.mode = MODE_APPLY
              /\ n \notin tcall.env.zipFails \cup tcall.env.zipRaises
              /\ Exists(fs, ArchivePathOf(n))
              /\ fs[ArchivePathOf(n)].kind = "file"
              /\ n \in Range(fs[ArchivePathOf(n)].data)
        /\ \A n \in tcall.env.zipFails \cup tcall.env.zipRaises :
              \A q \in DOMAIN before :
                  StartsWith(q, Append(ResolvedSupportDir, n)) =>
                      Exists(fs, q) /\ fs[q] = before[q]

\* a call in apply mode with one folder archived and removed and another whose
\* zip exited non-zero
C27_Witness ==
    /\ TaskDone /\ tcall.task = TASK_ARCHIVE_ORPHANS
    /\ tcall.args.mode = MODE_APPLY
    /\ RemovedFolders # {}
    /\ \E n \in tcall.env.zipFails :
          /\ IsDir(before, Append(ResolvedSupportDir, n))
          /\ Logged(tout.log, {"zip failed"}, Append(ResolvedSupportDir, n))

\* the folder names zip wrote into the archive at q during the call
WrittenInto(q) ==
    {n \in Range(tcall.args.archive_folder) :
        /\ ArchivePathOf(n) = q
        /\ n \in Range(fs[q].data)
        /\ IsDir(before, Append(ResolvedSupportDir, n))}

\* C28: within one run of task_archive_orphans no two distinct folder names
\* of the folder list are written to the same archive file path, also when
\* the names differ only in a space versus an underscore.
C28_OneFolderPerArchivePath ==
    TaskDone /\ tcall.task = TASK_ARCHIVE_ORPHANS =>
        \A q \in CreatedArchives : Cardinality(WrittenInto(q)) <= 1

\* the log lines that list profiles or cache directories for cleaning
ListingMessages == {"found profiles", "profile size", "cleaned", "would clean"}

\* C29: task_chrome_cleanup sends a quit, terminate or kill request only when
\* the browser is running, --kill-chrome was given and the mode is apply; in
\* every other case with the browser running the call ends without a request
\* sent, without anything removed and without anything listed for cleaning.
C29_RequestsOnlyWhenAskedInApply ==
    TaskDone /\ tcall.task = TASK_CHROME =>
        LET asked == /\ chrome_running(tcall.env)
                     /\ tcall.args.kill_chrome
                     /\ tcall.args.mode = MODE_APPLY
        IN  /\ tout.cmds # <<>> => asked
            /\ chrome_running(tcall.env) /\ ~asked =>
                  /\ tout.cmds = <<>>
                  /\ fs = before
                  /\ \A i \in 1..Len(tout.log) : tout.log[i].msg \notin ListingMessages
                  /\ tout.status = "raised" => tout.exc = "ValueError" /\ tout.log = <<>>

\* the browser is running over a directory with profiles and caches, the call
\* has --kill-chrome but not apply mode, and it ends with nothing sent
C29_Witness ==
    /\ TaskDone /\ tcall.task = TASK_CHROME
    /\ chrome_running(tcall.env)
    /\ tcall.args.kill_chrome
    /\ tcall.args.mode # MODE_APPLY
    /\ Profiles(before, ValidatedChromeDir) # {}
    /\ tout.log = <<Entry("would close chrome", "", ValidatedChromeDir)>>

\* the first brew command of each step, as the claim orders the steps
ClaimedBrewSteps ==
    <<[desc |-> "update", verb |-> "update"],
      [desc |-> "upgrade", verb |-> "upgrade"],
      [desc |-> "upgrade cask", verb |-> "upgrade --cask --greedy"],
      [desc |-> "autoremove", verb |-> "autoremove"],
      [desc |-> "cleanup", verb |-> "cleanup --prune=7 --quiet"],
      [desc |-> "doctor", verb |-> "doctor"],
      [desc |-> "missing", verb |-> "missing"],
      [desc |-> "untap", verb |-> "untap --force"],
      [desc |-> "list", verb |-> "list"],
      [desc |-> "cask list", verb |-> "list --cask"],
      [desc |-> "fix casks", verb |-> "list --cask"]>>

\* the enabled steps of the call in the claimed order, and their first commands
EnabledSteps == SelectSeq(ClaimedBrewSteps, LAMBDA x : x.desc \in tcall.args.brew_flags)

EnabledVerbs == [i \in 1..Len(EnabledSteps) |-> EnabledSteps[i].verb]

\* the log says that the first command of step desc exited non-zero
FailureLogged(desc) ==
    \E i \in 1..Len(tout.log) :
        IF desc = "fix casks" THEN tout.log[i].msg = "brew: could not list casks"
        ELSE tout.log[i].msg = "brew: failed" /\ tout.log[i].what = desc

\* the first command of step desc exits non-zero
FirstCommandFails(desc) ==
    IF desc = "fix casks" THEN "fix list" \in tcall.env.brewFails
    ELSE desc \in tcall.env.brewFails

\* the first commands of the steps the call ran (the reinstall commands of
\* the fix-casks step left out)
RanVerbs ==
    LET firsts == SelectSeq(tout.cmds,
                            LAMBDA c : c.verb \notin {"uninstall --cask", "install --cask"})
    IN  [i \in 1..Len(firsts) |-> firsts[i].verb]

BrewArgsValid ==
    /\ validate_brew_bin(tcall.args.brew_bin).status = "returned"
    /\ validate_home_path(tcall.args.brew_list_file, Cwd).status = "returned"
    /\ validate_home_path(tcall.args.brew_cask_file, Cwd).status = "returned"

\* a call of the brew task in apply mode whose arguments validate_brew_bin and
\* validate_home_path accepted
BrewApplyCall ==
    TaskDone /\ tcall.task = TASK_BREW /\ tcall.args.mode = MODE_APPLY /\ BrewArgsValid

\* C30: in apply mode task_brew_maintenance runs its enabled steps in the
\* order update, upgrade, upgrade cask, autoremove, cleanup, doctor, missing,
\* untap, list, cask list, fix casks: every enabled step runs, in that order,
\* and a step whose brew command exits non-zero is logged as failed while
\* every later enabled step still runs.
C30_BrewStepsInOrderPastFailures ==
    BrewApplyCall =>
        /\ RanVerbs = EnabledVerbs
        /\ \A i \in 1..Len(RanVerbs) :
              FirstCommandFails(EnabledSteps[i].desc) <=> FailureLogged(EnabledSteps[i].desc)

\* the steps run are always the first of the enabled ones in the claimed
\* order, a non-zero exit is logged, and they stop short of the enabled ones
\* only where writing a list file raised
BrewStepsShortOnlyWhereWriteRaised ==
    BrewApplyCall =>
        /\ RanVerbs = SubSeq(EnabledVerbs, 1, Len(RanVerbs))
        /\ RanVerbs # EnabledVerbs =>
              tout.status = "raised" /\ tout.exc = "FileNotFoundError"
        /\ \A i \in 1..Len(RanVerbs) :
              FirstCommandFails(EnabledSteps[i].desc) <=> FailureLogged(EnabledSteps[i].desc)

\* an apply call with every step enabled whose update command exits non-zero
\* and whose steps all run, the reinstall of the fix-casks step included
AllBrewStepsPastFailure ==
    /\ TaskDone /\ tcall.task = TASK_BREW /\ tcall.args.mode = MODE_APPLY
    /\ tcall.args.brew_flags = BrewFlags
    /\ tcall.env.brewFails = {"update"}
    /\ tout.status = "returned"
    /\ Len(RanVerbs) = 11
    /\ Len(tout.cmds) = 13

====
